---- MODULE Spec2Model ----
(***************************************************************************)
(* Synchronization engine of the Guild Activity Tracker bridge             *)
(* (src/guild_activity_bridge.py): local upload queue, stats watermark,    *)
(* roster delta, chunked roster transfer and the retrying HTTP transport.  *)
(*                                                                         *)
(* Conventions.                                                            *)
(*  - A canonical player key "Pk-Realm" is the integer k.  Python dicts    *)
(*    keep insertion order; every map of the model is inserted in          *)
(*    ascending key order, so KeysOf gives the dict order.                 *)
(*  - An upload session id (timestamp + uuid) is the number of the cycle   *)
(*    that made it; 0 is the empty string.                                 *)
(*  - The state file and the queue file are read and written without I/O   *)
(*    errors; `state` is BridgeState, `queue` the lines of the queue file. *)
(*  - A request payload is one record shape for the three payload kinds;   *)
(*    keys a kind does not carry hold empty values.                        *)
(*  - The cycles of Spec draw the merged roster directly; the merge of     *)
(*    roster and chat data is SpecMerge, where a key is the record         *)
(*    [short, realm] of "short-realm" and lua_data lists the chat map in   *)
(*    the order of the file.                                               *)
(***************************************************************************)
EXTENDS Integers, Sequences, FiniteSets, TLC

\* ------------------------------------------------------------------ bounds
MaxCycles == 2
MaxMembers == 21
MaxStats == 12
AttemptCap == 7
MaxFaults == 2
DeltaKeys == 4
MaxShrinkMembers == 100
MaxQueued == 3

\* ------------------------------------------------------- program constants
DEFAULT_BATCH_SIZE == 80
MinBatchSize == 10
MinStatsBatchSize == 10
max_attempts_before_queue == 5
AmbiguityWindow == 60

\* configuration used by the main specification (BATCH_SIZE, STATS_BATCH_SIZE)
config_batch_size == 20
config_stats_batch_size == 10

\* ------------------------------------------------------------ HTTP answers
ConnError == 0
StatusCodes == {200, 413, 401, 403, 400, 422, 500, ConnError}

\* ---------------------------------------------------------------- helpers
Min2(a, b) == IF a < b THEN a ELSE b

Max2(a, b) == IF a > b THEN a ELSE b

CeilDiv(a, b) == (a + b - 1) \div b

SetMax(S) == CHOOSE x \in S : \A y \in S : x >= y

\* the elements of S in ascending order: the i-th has i - 1 elements below it
SortedSeq(S) ==
    [i \in 1..Cardinality(S) |-> CHOOSE k \in S : Cardinality({j \in S : j < k}) = i - 1]

KeysOf(map) == SortedSeq(DOMAIN map)

Range(s) == {s[i] : i \in 1..Len(s)}

EmptyMap == [k \in {} |-> 0]

IsoOf(ts) == << "iso", ts >>

\* ----------------------------------------------------------- cycle inputs
\* Merged roster entry of member k; v > 0 gives it chat activity.
Member(k, v) ==
    [rank |-> IF k = 1 THEN "Officer" ELSE "Member",
     level |-> 80,
     class |-> "MAGE",
     rankName |-> IF v > 0 THEN "Raider" ELSE "-",
     total |-> v,
     lastSeenTS |-> 100 * v,
     lastMessage |-> IF v > 0 THEN "hi" ELSE ""]

Roster(n, v) == [k \in 1..n |-> Member(k, IF k <= 2 THEN v ELSE 0)]

RosterInputs == {Roster(2, 0), Roster(MaxMembers, 0), Roster(MaxMembers, 1)}

\* Output of _normalize_stats for snapshots 1..hi: only the newest
\* snapshot carries the online map (its key set here).
StatsList(hi) == [i \in 1..hi |->
                    [iso |-> IsoOf(i), ts |-> i, onlineCount |-> 1 + (i % 2),
                     online |-> IF i = hi THEN {1} ELSE {}]]

StatsHis == {2, MaxStats}

\* -------------------------------------------------- roster / chat merge
\* A player key is the string "Short" or "Short-Realm".  It is coded as a
\* number, short index times (number of realms + 1) plus realm index, so that
\* keys can be ordered; the realm "" is the bare short name.  MergeRealms is
\* in the order Python sorts the realm strings.
MergeRealms == << "", "Realm1", "RealmA", "RealmB", "Unknown" >>

Shorts == << "Bob" >>

IndexOf(seq, x) == CHOOSE i \in 1..Len(seq) : seq[i] = x

ChatKey(short, realm) ==
    (Len(MergeRealms) + 1) * IndexOf(Shorts, short) + IndexOf(MergeRealms, realm)

KeyShort(key) == Shorts[key \div (Len(MergeRealms) + 1)]

KeyRealm(key) == MergeRealms[key % (Len(MergeRealms) + 1)]

\* full.split("-", 1)[0]
ShortName(full) == ChatKey(KeyShort(full), "")

CanonicalizePlayerKey(name, default_realm) ==
    IF KeyRealm(name) # "" THEN name
    ELSE IF default_realm = "" THEN name
    ELSE ChatKey(KeyShort(name), default_realm)

\* lua_data of a cycle that is not merging
NoLua == [roster |-> << >>, data |-> << >>]

\* raw_activity as the list of its (key, entry) items in file order
ActivityKeys(raw_activity) == {raw_activity[i].key : i \in 1..Len(raw_activity)}

ActivityEntry(raw_activity, key) ==
    raw_activity[CHOOSE i \in 1..Len(raw_activity) : raw_activity[i].key = key].entry

\* config.default_realm is empty: the realm most keys carry, the first in
\* string order among equals, "Unknown" when no key carries a realm
InferDefaultRealm(raw_roster, raw_activity) ==
    LET keys == [i \in 1..Len(raw_activity) |-> raw_activity[i].key]
                    \o [i \in 1..Len(raw_roster) |-> raw_roster[i].key]
        count(r) == Cardinality({i \in 1..Len(keys) : KeyRealm(keys[i]) = r})
        seen == {i \in 2..Len(MergeRealms) : count(MergeRealms[i]) > 0}
    IN IF seen = {} THEN "Unknown"
       ELSE MergeRealms[CHOOSE i \in seen :
                            \A j \in seen :
                                \/ count(MergeRealms[i]) > count(MergeRealms[j])
                                \/ count(MergeRealms[i]) = count(MergeRealms[j]) /\ i <= j]

\* ks.startswith(short + "-")
ShortCandidates(raw_activity, short) ==
    SelectSeq(raw_activity, LAMBDA kv : KeyShort(kv.key) = short /\ KeyRealm(kv.key) # "")

\* position of the first item with the greatest lastSeenTS: the head of the
\* list after the stable sort(reverse=True)
TopIndex(candidates) ==
    CHOOSE i \in 1..Len(candidates) :
        \A j \in 1..Len(candidates) :
            \/ candidates[i].entry.lastSeenTS > candidates[j].entry.lastSeenTS
            \/ candidates[i].entry.lastSeenTS = candidates[j].entry.lastSeenTS /\ i <= j

WithoutIndex(seq, i) == SubSeq(seq, 1, i - 1) \o SubSeq(seq, i + 1, Len(seq))

Abs(x) == IF x < 0 THEN -x ELSE x

\* << >> is None, << entry >> a chat entry
FindChatEntry(roster_key, canonical_key, raw_activity) ==
    LET short == ShortName(canonical_key)
        candidates == ShortCandidates(raw_activity, KeyShort(canonical_key))
    IN IF canonical_key \in ActivityKeys(raw_activity)
       THEN << ActivityEntry(raw_activity, canonical_key) >>
       ELSE IF roster_key \in ActivityKeys(raw_activity)
       THEN << ActivityEntry(raw_activity, roster_key) >>
       ELSE IF short \in ActivityKeys(raw_activity)
       THEN (IF Len(candidates) = 0 THEN << ActivityEntry(raw_activity, short) >>
             ELSE << >>)
       ELSE IF Len(candidates) = 1 THEN << candidates[1].entry >>
       ELSE IF Len(candidates) > 1
       THEN LET t == TopIndex(candidates)
                rest == WithoutIndex(candidates, t)
                top_ts == candidates[t].entry.lastSeenTS
                second_ts == rest[TopIndex(rest)].entry.lastSeenTS
            IN IF top_ts # 0 /\ second_ts # 0 /\ Abs(top_ts - second_ts) < AmbiguityWindow
               THEN << >>
               ELSE << candidates[t].entry >>
       ELSE << >>

\* roster entry before enrichment
RosterDefaults(roster_info) ==
    [rank |-> roster_info.rank, level |-> roster_info.level, class |-> roster_info.class,
     rankName |-> "-", total |-> 0, lastSeenTS |-> 0, lastMessage |-> ""]

Enrich(member_entry, chat) ==
    IF chat = << >> THEN member_entry
    ELSE [member_entry EXCEPT
             !.total = chat[1].total,
             !.lastMessage = chat[1].lastMessage,
             !.rankName = IF chat[1].rankName \notin {"", "-"} THEN chat[1].rankName ELSE @,
             !.lastSeenTS = IF chat[1].lastSeenTS > 0 THEN chat[1].lastSeenTS ELSE @]

ChatOnly(chat) ==
    [rank |-> IF chat.rankName # "" THEN chat.rankName ELSE "Former",
     level |-> 0, class |-> "UNKNOWN",
     rankName |-> IF chat.rankName # "" THEN chat.rankName ELSE "-",
     total |-> chat.total, lastSeenTS |-> chat.lastSeenTS, lastMessage |-> chat.lastMessage]

\* the last item of a list of (key, value) items whose canonical key is ck
LastWith(items, ck, default_realm) ==
    items[SetMax({i \in 1..Len(items) : CanonicalizePlayerKey(items[i].key, default_realm) = ck})]

\* keys of chat_only_members: the canonical chat keys that are no roster key
ChatOnlyKeys(raw_roster, raw_activity, default_realm) ==
    LET canon(items) == {CanonicalizePlayerKey(items[i].key, default_realm) : i \in 1..Len(items)}
    IN canon(raw_activity) \ canon(raw_roster)

\* len(raw_roster) < max(0, min_roster_size): the merge returns None
MergeReturnsNone(data, min_roster_size) == Len(data.roster) < Max2(0, min_roster_size)

\* processed_data: the enriched roster and its union with the chat-only players
ProcessAndMergeData(data) ==
    LET default_realm == InferDefaultRealm(data.roster, data.data)
        roster_keys == {CanonicalizePlayerKey(data.roster[i].key, default_realm) :
                            i \in 1..Len(data.roster)}
        roster_members ==
            [ck \in roster_keys |->
                Enrich(RosterDefaults(LastWith(data.roster, ck, default_realm).info),
                       FindChatEntry(ShortName(ck), ck, data.data))]
        chat_only == ChatOnlyKeys(data.roster, data.data, default_realm)
    IN [roster_members |-> roster_members,
        members |-> [ck \in roster_keys \cup chat_only |->
                        IF ck \in roster_keys THEN roster_members[ck]
                        ELSE ChatOnly(LastWith(data.data, ck, default_realm).entry)],
        stats |-> << >>]

\* ------------------------------------------------------- Snapshot / delta
BuildRosterSnapshot_DropsLastSeen(roster_members) ==
    [name \in DOMAIN roster_members |->
        [rank |-> roster_members[name].rank,
         lvl |-> roster_members[name].level,
         class |-> roster_members[name].class,
         lastSeenTS |-> 0,
         lastMessage |-> roster_members[name].lastMessage]]

BuildRosterSnapshot(roster_members) ==
    [name \in DOMAIN roster_members |->
        [rank |-> roster_members[name].rank,
         lvl |-> roster_members[name].level,
         class |-> roster_members[name].class,
         lastSeenTS |-> roster_members[name].lastSeenTS,
         lastMessage |-> roster_members[name].lastMessage]]

ComputeRosterDelta_AddedOnly(prev, roster_members) ==
    LET current_snapshot == BuildRosterSnapshot(roster_members) IN
    [added |-> SelectSeq(KeysOf(current_snapshot), LAMBDA name : name \notin DOMAIN prev),
     updated |-> << >>,
     removed |-> SelectSeq(KeysOf(prev), LAMBDA name : name \notin DOMAIN current_snapshot)]

ComputeRosterDelta_UpdatedAlways(prev, roster_members) ==
    LET current_snapshot == BuildRosterSnapshot(roster_members) IN
    [added |-> SelectSeq(KeysOf(current_snapshot), LAMBDA name : name \notin DOMAIN prev),
     updated |-> SelectSeq(KeysOf(current_snapshot), LAMBDA name : name \in DOMAIN prev),
     removed |-> SelectSeq(KeysOf(prev), LAMBDA name : name \notin DOMAIN current_snapshot)]

ComputeRosterDelta(prev, roster_members) ==
    LET current_snapshot == BuildRosterSnapshot(roster_members) IN
    [added |-> SelectSeq(KeysOf(current_snapshot), LAMBDA name : name \notin DOMAIN prev),
     updated |-> SelectSeq(KeysOf(current_snapshot),
                           LAMBDA name : name \in DOMAIN prev
                                         /\ current_snapshot[name] # prev[name]),
     removed |-> SelectSeq(KeysOf(prev), LAMBDA name : name \notin DOMAIN current_snapshot)]

\* ------------------------------------------------------------- stats phase
NewSnaps_NoFilter(stats_list, last_uploaded_stats_ts) == stats_list

NewSnaps_Inclusive(stats_list, last_uploaded_stats_ts) ==
    SelectSeq(stats_list, LAMBDA s : s.ts >= last_uploaded_stats_ts)

NewSnaps(stats_list, last_uploaded_stats_ts) ==
    SelectSeq(stats_list, LAMBDA s : s.ts > last_uploaded_stats_ts)

StatsChunk_KeepsOnline(new_snaps, i, batch_size) ==
    SubSeq(new_snaps, i + 1, Min2(i + batch_size, Len(new_snaps)))

\* chunk = new_snaps[i:i+batch_size], online cleared on all but its last
StatsChunk(new_snaps, i, batch_size) ==
    LET chunk == SubSeq(new_snaps, i + 1, Min2(i + batch_size, Len(new_snaps))) IN
    [j \in 1..Len(chunk) |->
        IF j < Len(chunk) THEN [chunk[j] EXCEPT !.online = {}] ELSE chunk[j]]

StatsPayload_OwnSession(chunk, upload_session_id, batch_index, total_batches) ==
    [kind |-> "stats",
     upload_session_id |-> upload_session_id + batch_index,
     is_final_batch |-> FALSE,
     batch_index |-> batch_index,
     total_batches |-> total_batches,
     removed_members |-> << >>,
     session_phase |-> "",
     roster_mode |-> "",
     roster_summary |-> << >>,
     master_roster |-> EmptyMap,
     data |-> EmptyMap,
     stats |-> chunk]

StatsPayload(chunk, upload_session_id, batch_index, total_batches) ==
    [kind |-> "stats",
     upload_session_id |-> upload_session_id,
     is_final_batch |-> FALSE,
     batch_index |-> batch_index,
     total_batches |-> total_batches,
     removed_members |-> << >>,
     session_phase |-> "",
     roster_mode |-> "",
     roster_summary |-> << >>,
     master_roster |-> EmptyMap,
     data |-> EmptyMap,
     stats |-> chunk]

\* ------------------------------------------------------------ roster phase
SessionPhase_ByIndex(batch_index, total_batches, is_final) ==
    IF batch_index = total_batches THEN "final"
    ELSE IF batch_index = 1 THEN "start"
    ELSE "chunk"

SessionPhase(batch_index, total_batches, is_final) ==
    IF total_batches = 1 THEN "final"
    ELSE IF batch_index = 1 THEN "start"
    ELSE IF is_final THEN "final"
    ELSE "chunk"

MasterRoster(roster_members, batch_keys) ==
    [name \in Range(batch_keys) |->
        [rank |-> roster_members[name].rank,
         lvl |-> IF roster_members[name].level = 0 THEN 80 ELSE roster_members[name].level,
         class |-> roster_members[name].class]]

HasChat(info) == info.total > 0 \/ info.lastSeenTS > 0 \/ info.lastMessage # ""

ChatData(roster_members, batch_keys) ==
    [name \in {k \in Range(batch_keys) : HasChat(roster_members[k])} |->
        [total |-> roster_members[name].total,
         rankName |-> IF roster_members[name].rankName # "-"
                      THEN roster_members[name].rankName
                      ELSE roster_members[name].rank,
         lastMessage |-> roster_members[name].lastMessage,
         lastSeenTS |-> roster_members[name].lastSeenTS,
         lastSeen |-> IF roster_members[name].lastSeenTS > 0
                      THEN IsoOf(roster_members[name].lastSeenTS) ELSE << >>]]

RosterSummary(mode, reason, delta, total_members) ==
    [mode |-> mode,
     added |-> IF mode \in {"delta", "full"} THEN Len(delta.added) ELSE 0,
     updated |-> IF mode \in {"delta", "full"} THEN Len(delta.updated) ELSE 0,
     removed |-> IF mode \in {"delta", "full"} THEN Len(delta.removed) ELSE 0,
     total_members |-> total_members,
     reason |-> reason]

BuildPayload_RemovedAlways(roster_members, delta, mode, reason, total_roster, session_id, batch_keys, batch_index, total_batches, is_final) ==
    [kind |-> "roster",
     upload_session_id |-> session_id,
     is_final_batch |-> is_final,
     batch_index |-> batch_index,
     total_batches |-> total_batches,
     removed_members |-> IF mode \in {"delta", "full"} THEN delta.removed ELSE << >>,
     session_phase |-> SessionPhase(batch_index, total_batches, is_final),
     roster_mode |-> mode,
     roster_summary |-> RosterSummary(mode, reason, delta, total_roster),
     master_roster |-> MasterRoster(roster_members, batch_keys),
     data |-> ChatData(roster_members, batch_keys),
     stats |-> << >>]

BuildPayload(roster_members, delta, mode, reason, total_roster, session_id, batch_keys, batch_index, total_batches, is_final) ==
    [kind |-> "roster",
     upload_session_id |-> session_id,
     is_final_batch |-> is_final,
     batch_index |-> batch_index,
     total_batches |-> total_batches,
     removed_members |-> IF is_final /\ mode \in {"delta", "full"}
                         THEN delta.removed ELSE << >>,
     session_phase |-> SessionPhase(batch_index, total_batches, is_final),
     roster_mode |-> mode,
     roster_summary |-> RosterSummary(mode, reason, delta, total_roster),
     master_roster |-> MasterRoster(roster_members, batch_keys),
     data |-> ChatData(roster_members, batch_keys),
     stats |-> << >>]

SummaryPayload_NonFinal(session_id, total_roster) ==
    [kind |-> "heartbeat",
     upload_session_id |-> session_id,
     is_final_batch |-> FALSE,
     batch_index |-> 1,
     total_batches |-> 1,
     removed_members |-> << >>,
     session_phase |-> "",
     roster_mode |-> "no_change",
     roster_summary |-> RosterSummary("no_change", "no_change",
                                      [added |-> << >>, updated |-> << >>, removed |-> << >>],
                                      total_roster),
     master_roster |-> EmptyMap,
     data |-> EmptyMap,
     stats |-> << >>]

SummaryPayload(session_id, total_roster) ==
    [kind |-> "heartbeat",
     upload_session_id |-> session_id,
     is_final_batch |-> TRUE,
     batch_index |-> 1,
     total_batches |-> 1,
     removed_members |-> << >>,
     session_phase |-> "",
     roster_mode |-> "no_change",
     roster_summary |-> RosterSummary("no_change", "no_change",
                                      [added |-> << >>, updated |-> << >>, removed |-> << >>],
                                      total_roster),
     master_roster |-> EmptyMap,
     data |-> EmptyMap,
     stats |-> << >>]

ClampBatchSize(configured) == Max2(MinBatchSize, configured)

TotalBatches(total_members, batch_size) == Max2(1, CeilDiv(total_members, batch_size))

ShrinkBatch_NoFloor(batch_size) == batch_size \div 2

ShrinkBatch_Slow(batch_size) == Max2(MinBatchSize, (batch_size * 3) \div 4)

ShrinkBatch(batch_size) == Max2(MinBatchSize, batch_size \div 2)

\* ---------------------------------------------------------------- transport
Classify_413Transient(status) ==
    IF status = 200 THEN "success"
    ELSE IF status \in {401, 403, 400, 422} THEN "fatal"
    ELSE "transient"

Classify_422Transient(status) ==
    IF status = 200 THEN "success"
    ELSE IF status = 413 THEN "too_large"
    ELSE IF status \in {401, 403, 400} THEN "fatal"
    ELSE "transient"

Classify(status) ==
    IF status = 200 THEN "success"
    ELSE IF status = 413 THEN "too_large"
    ELSE IF status \in {401, 403} THEN "fatal"
    ELSE IF status \in {400, 422} THEN "fatal"
    ELSE "transient"

GivesUp_OffByOne(allow_queue, attempt) ==
    allow_queue /\ attempt > max_attempts_before_queue

GivesUp(allow_queue, attempt) ==
    allow_queue /\ attempt >= max_attempts_before_queue

\* -------------------------------------------------------------------- state
VARIABLES
    config,             \* Config: batch_size, stats_batch_size
    lua_data,           \* decoded SavedVariables table handed to _process_and_merge_data
    state,              \* BridgeState: last_uploaded_stats_ts, last_web_session_id, roster_snapshot
    queue,              \* lines of the local queue file (LocalUploadQueue)
    force_full_roster,  \* threading.Event _force_full_roster
    force_reason,       \* _force_reason
    pc,                 \* position of the pipeline thread
    ctx,                \* who called flush: "cycle" (process_file) or "loop" (_run_loop)
    cycles,             \* number of process_file calls so far
    processed,          \* processed_data of the current cycle
    web_session_id,     \* web_session_id of the current cycle
    fl,                 \* locals of LocalUploadQueue.flush
    st,                 \* locals of _upload_stats_incremental_to_web
    ro,                 \* locals of _upload_chunked_to_web
    http,               \* locals of _post_to_web_with_retry
    log,                \* requests the transport finished in this cycle, with their outcome
    accepted_stats,     \* remote service: timestamps of the snapshots in accepted stats batches
    remote_mode,        \* remote service: "free" answers anything, "size_limit" rejects by size
    faults,             \* remote service: requests it has answered with a failure so far
    prev_flush,         \* summary of the previous flush pass, "stale" once something was enqueued
    outcome             \* how the phases of the last cycle ended

vars == << config, lua_data, remote_mode, state, queue, force_full_roster, force_reason, pc, ctx, cycles,
           processed, web_session_id, fl, st, ro, http, log, accepted_stats,
           faults, prev_flush, outcome >>

NoDelta == [added |-> << >>, updated |-> << >>, removed |-> << >>]

NoPayload == SummaryPayload(0, 0)

fl0 == [entries |-> << >>, remaining |-> << >>, fi |-> 0, sent |-> 0]

st0 == [new_snaps |-> << >>, i |-> 0, batch_size |-> 0, total_batches |-> 0]

ro0 == [force_full |-> FALSE, mode |-> "", reason |-> "", delta |-> NoDelta,
        transfer |-> EmptyMap, all_keys |-> << >>, idx |-> 0, batch_index |-> 0,
        batch_size |-> 0, total_batches |-> 0, shrinks |-> 0]

http0 == [payload |-> NoPayload, purpose |-> << >>, allow_queue |-> TRUE, attempt |-> 0,
          caller |-> "", tag |-> 0, last_status |-> -1, result |-> "",
          qlen0 |-> 0, transients |-> 0, failed |-> FALSE]

outcome0 == [stats |-> "not_run", roster |-> "not_run"]

processed0 == [roster_members |-> EmptyMap, members |-> EmptyMap, stats |-> << >>]

Init ==
    /\ config = [batch_size |-> config_batch_size, stats_batch_size |-> config_stats_batch_size,
                 min_roster_size |-> 1]
    /\ lua_data = NoLua
    /\ state = [last_uploaded_stats_ts |-> 0, last_web_session_id |-> 0,
                roster_snapshot |-> EmptyMap]
    /\ queue = << >>
    /\ force_full_roster = FALSE
    /\ force_reason = "manual"
    /\ pc = "idle"
    /\ ctx = "loop"
    /\ cycles = 0
    /\ processed = processed0
    /\ web_session_id = 0
    /\ fl = fl0
    /\ st = st0
    /\ ro = ro0
    /\ http = http0
    /\ log = << >>
    /\ accepted_stats = {}
    /\ faults = 0
    /\ remote_mode = "free"
    /\ prev_flush = [status |-> "none", sent |-> 0]
    /\ outcome = outcome0

\* A request handed to _post_to_web_with_retry by `caller`.
Request(payload, purpose, allow_queue, caller, tag) ==
    [payload |-> payload, purpose |-> purpose, allow_queue |-> allow_queue, attempt |-> 0,
     caller |-> caller, tag |-> tag, last_status |-> -1, result |-> "",
     qlen0 |-> Len(queue), transients |-> 0, failed |-> FALSE]

\* ------------------------------------------------------- force-full request
RequestFullRoster ==
    /\ force_reason' = "manual"
    /\ force_full_roster' = TRUE
    /\ UNCHANGED << config, lua_data, remote_mode, state, queue, pc, ctx, cycles, processed, web_session_id,
                    fl, st, ro, http, log, accepted_stats, faults, prev_flush, outcome >>

\* ------------------------------------------------------------ process_file
AfterParse_AlwaysUploads(decoded) == "flush"

AfterParse_SkipsFlush(decoded) == IF decoded THEN "flushed" ELSE "idle"

\* where process_file goes after reading the file: the early returns of lines
\* 854-878 leave it, otherwise the upload stage starts with the queue flush
AfterParse(decoded) == IF decoded THEN "flush" ELSE "idle"

\* The file decodes and merges to a non-empty roster: the cycle starts with
\* the queue flush.
ProcessFile(roster_members, hi) ==
    /\ pc = "idle"
    /\ cycles < MaxCycles
    /\ cycles' = cycles + 1
    /\ processed' = [roster_members |-> roster_members, members |-> roster_members,
                     stats |-> StatsList(hi)]
    /\ ctx' = "cycle"
    /\ fl' = [fl0 EXCEPT !.entries = queue]
    /\ st' = st0
    /\ ro' = ro0
    /\ http' = http0
    /\ log' = << >>
    /\ outcome' = outcome0
    /\ pc' = AfterParse(TRUE)
    /\ UNCHANGED << config, lua_data, remote_mode, state, queue, force_full_roster, force_reason, web_session_id,
                    accepted_stats, faults, prev_flush >>

\* Empty content, no table, decoder error, non-map result or a roster below
\* min_roster_size: process_file returns before the upload stage.
ProcessFileAbort ==
    /\ pc = "idle"
    /\ cycles < MaxCycles
    /\ cycles' = cycles + 1
    /\ pc' = AfterParse(FALSE)
    /\ UNCHANGED << config, lua_data, remote_mode, state, queue, force_full_roster, force_reason, ctx,
                    processed, web_session_id, fl, st, ro, http, log, accepted_stats, faults,
                    prev_flush, outcome >>

\* _run_loop: WoW was detected, the queue is flushed outside a cycle.
WowDetected ==
    /\ pc = "idle"
    /\ ctx' = "loop"
    /\ fl' = [fl0 EXCEPT !.entries = queue]
    /\ http' = http0
    /\ log' = << >>
    /\ pc' = "flush"
    /\ UNCHANGED << config, lua_data, remote_mode, state, queue, force_full_roster, force_reason, cycles,
                    processed, web_session_id, st, ro, accepted_stats, faults, prev_flush, outcome >>

\* ------------------------------------------------- LocalUploadQueue.flush
FlushSend ==
    /\ pc = "flush"
    /\ fl.fi < Len(fl.entries)
    /\ http' = Request(fl.entries[fl.fi + 1].payload, fl.entries[fl.fi + 1].purpose,
                       FALSE, "flush", fl.fi + 1)
    /\ fl' = [fl EXCEPT !.sent = @ + 1]
    /\ pc' = "http"
    /\ UNCHANGED << config, lua_data, remote_mode, state, queue, force_full_roster, force_reason, ctx, cycles,
                    processed, web_session_id, st, ro, log, accepted_stats, faults, prev_flush,
                    outcome >>

\* sender returned: the entry is dropped
FlushEntryOk ==
    /\ pc = "ret"
    /\ http.caller = "flush"
    /\ http.result = "success"
    /\ fl' = [fl EXCEPT !.fi = @ + 1]
    /\ http' = http0
    /\ pc' = "flush"
    /\ UNCHANGED << config, lua_data, remote_mode, state, queue, force_full_roster, force_reason, ctx, cycles,
                    processed, web_session_id, st, ro, log, accepted_stats, faults, prev_flush,
                    outcome >>

\* sender raised: the entry is kept
FlushEntryFailed ==
    /\ pc = "ret"
    /\ http.caller = "flush"
    /\ http.result # "success"
    /\ fl' = [fl EXCEPT !.fi = @ + 1, !.remaining = Append(@, fl.entries[fl.fi + 1])]
    /\ http' = http0
    /\ pc' = "flush"
    /\ UNCHANGED << config, lua_data, remote_mode, state, queue, force_full_roster, force_reason, ctx, cycles,
                    processed, web_session_id, st, ro, log, accepted_stats, faults, prev_flush,
                    outcome >>

FlushResult_AppendsRemaining(entries, remaining, file) ==
    IF Len(entries) = 0 THEN file ELSE file \o remaining

FlushResult_RemovesFile(entries, remaining, file) ==
    IF Len(entries) = 0 THEN file ELSE << >>

FlushResult_KeepsFile(entries, remaining, file) ==
    IF Len(entries) = 0 THEN file
    ELSE IF Len(remaining) > 0 THEN remaining
    ELSE file

\* the queue file after the pass: untouched, rewritten or removed
FlushResult(entries, remaining, file) ==
    IF Len(entries) = 0 THEN file
    ELSE IF Len(remaining) > 0 THEN remaining
    ELSE << >>

FlushFinish ==
    /\ pc = "flush"
    /\ fl.fi = Len(fl.entries)
    /\ queue' = FlushResult(fl.entries, fl.remaining, queue)
    /\ pc' = "flushed"
    /\ UNCHANGED << config, lua_data, remote_mode, state, force_full_roster, force_reason, ctx, cycles, processed,
                    web_session_id, fl, st, ro, http, log, accepted_stats, faults, prev_flush,
                    outcome >>

\* positions of the entries whose replay the remote answered with 200
FlushAccepted ==
    {log[i].idx : i \in {j \in 1..Len(log) : log[j].phase = "flush" /\ log[j].accepted}}

FlushSummary ==
    [status |-> IF FlushAccepted = 1..Len(fl.entries) THEN "all_accepted" ELSE "some_failed",
     sent |-> fl.sent]

\* back in _run_loop
FlushReturnToLoop ==
    /\ pc = "flushed"
    /\ ctx = "loop"
    /\ prev_flush' = FlushSummary
    /\ fl' = fl0
    /\ log' = << >>
    /\ pc' = "idle"
    /\ UNCHANGED << config, lua_data, remote_mode, state, queue, force_full_roster, force_reason, ctx, cycles,
                    processed, web_session_id, st, ro, http, accepted_stats, faults,
                    outcome >>

\* back in process_file: the session id is made and saved
BeginUpload ==
    /\ pc = "flushed"
    /\ ctx = "cycle"
    /\ prev_flush' = FlushSummary
    /\ web_session_id' = cycles
    /\ state' = [state EXCEPT !.last_web_session_id = cycles]
    /\ pc' = "stats"
    /\ UNCHANGED << config, lua_data, remote_mode, queue, force_full_roster, force_reason, ctx, cycles, processed,
                    fl, st, ro, http, log, accepted_stats, faults, outcome >>

\* ------------------------------------ _upload_stats_incremental_to_web
AfterStats_Propagates(result) ==
    IF result \in {"too_large", "fatal"} THEN "cycle_end" ELSE "consume"

\* where process_file goes after the stats phase: the function catches every
\* exception itself, the roster phase follows whatever the result
AfterStats(result) == "consume"

\* int(new_snaps[-1].get("ts", wm) or wm)
StatsWatermark(new_snaps, last_uploaded_stats_ts) ==
    IF new_snaps[Len(new_snaps)].ts # 0 THEN new_snaps[Len(new_snaps)].ts
    ELSE last_uploaded_stats_ts

\* process_file skips the call on an empty stats list; the function returns
\* when no snapshot is newer than the watermark.
StatsNothingNew ==
    /\ pc = "stats"
    /\ NewSnaps(processed.stats, state.last_uploaded_stats_ts) = << >>
    /\ outcome' = [outcome EXCEPT !.stats = "nothing_new"]
    /\ pc' = AfterStats("returned")
    /\ UNCHANGED << config, lua_data, remote_mode, state, queue, force_full_roster, force_reason, ctx, cycles,
                    processed, web_session_id, fl, st, ro, http, log, accepted_stats, faults,
                    prev_flush >>

StatsBegin ==
    /\ pc = "stats"
    /\ NewSnaps(processed.stats, state.last_uploaded_stats_ts) # << >>
    /\ LET new_snaps == NewSnaps(processed.stats, state.last_uploaded_stats_ts)
           batch_size == Max2(MinStatsBatchSize, config.stats_batch_size)
       IN st' = [new_snaps |-> new_snaps, i |-> 0, batch_size |-> batch_size,
                 total_batches |-> CeilDiv(Len(new_snaps), batch_size)]
    /\ pc' = "stats_loop"
    /\ UNCHANGED << config, lua_data, remote_mode, state, queue, force_full_roster, force_reason, ctx, cycles,
                    processed, web_session_id, fl, ro, http, log, accepted_stats, faults,
                    prev_flush, outcome >>

StatsSend ==
    /\ pc = "stats_loop"
    /\ st.i < Len(st.new_snaps)
    /\ LET batch_index == (st.i \div st.batch_size) + 1 IN
       http' = Request(StatsPayload(StatsChunk(st.new_snaps, st.i, st.batch_size),
                                    web_session_id, batch_index, st.total_batches),
                       << "stats", batch_index, st.total_batches >>,
                       TRUE, "stats", st.i)
    /\ pc' = "http"
    /\ UNCHANGED << config, lua_data, remote_mode, state, queue, force_full_roster, force_reason, ctx, cycles,
                    processed, web_session_id, fl, st, ro, log, accepted_stats, faults,
                    prev_flush, outcome >>

\* the transport returned (accepted, or queued after the last attempt)
StatsBatchReturned ==
    /\ pc = "ret"
    /\ http.caller = "stats"
    /\ http.result \in {"success", "queued"}
    /\ st' = [st EXCEPT !.i = @ + st.batch_size]
    /\ http' = http0
    /\ pc' = "stats_loop"
    /\ UNCHANGED << config, lua_data, remote_mode, state, queue, force_full_roster, force_reason, ctx, cycles,
                    processed, web_session_id, fl, ro, log, accepted_stats, faults, prev_flush,
                    outcome >>

\* the transport raised (_TooLarge413 or RuntimeError): except Exception logs it
StatsBatchRaised ==
    /\ pc = "ret"
    /\ http.caller = "stats"
    /\ http.result \in {"too_large", "fatal"}
    /\ outcome' = [outcome EXCEPT !.stats = "error"]
    /\ http' = http0
    /\ pc' = AfterStats(http.result)
    /\ UNCHANGED << config, lua_data, remote_mode, state, queue, force_full_roster, force_reason, ctx, cycles,
                    processed, web_session_id, fl, st, ro, log, accepted_stats, faults,
                    prev_flush >>

\* after the loop: the watermark moves to the newest snapshot and is saved
StatsCommit ==
    /\ pc = "stats_loop"
    /\ st.i >= Len(st.new_snaps)
    /\ state' = [state EXCEPT !.last_uploaded_stats_ts =
                                  StatsWatermark(st.new_snaps, state.last_uploaded_stats_ts)]
    /\ outcome' = [outcome EXCEPT !.stats = "committed"]
    /\ pc' = AfterStats("returned")
    /\ UNCHANGED << config, lua_data, remote_mode, queue, force_full_roster, force_reason, ctx, cycles, processed,
                    web_session_id, fl, st, ro, http, log, accepted_stats, faults, prev_flush >>

\* ------------------------------------------------ _consume_force_full_flag
\* is_set() and clear() are two calls on the Event
ConsumeTest ==
    /\ pc = "consume"
    /\ IF force_full_roster
       THEN pc' = "consume_clear" /\ ro' = ro
       ELSE pc' = "roster" /\ ro' = [ro EXCEPT !.force_full = FALSE, !.reason = ""]
    /\ UNCHANGED << config, lua_data, remote_mode, state, queue, force_full_roster, force_reason, ctx, cycles,
                    processed, web_session_id, fl, st, http, log, accepted_stats, faults,
                    prev_flush, outcome >>

ConsumeClear ==
    /\ pc = "consume_clear"
    /\ force_full_roster' = FALSE
    /\ ro' = [ro EXCEPT !.force_full = TRUE, !.reason = force_reason]
    /\ pc' = "roster"
    /\ UNCHANGED << config, lua_data, remote_mode, state, queue, force_reason, ctx, cycles, processed,
                    web_session_id, fl, st, http, log, accepted_stats, faults, prev_flush,
                    outcome >>

\* ------------------------------------------------- _upload_chunked_to_web
\* processed_data.get("roster_members") or processed_data.get("members") or {}
RosterOf(processed_data) ==
    IF DOMAIN processed_data.roster_members # {} THEN processed_data.roster_members
    ELSE processed_data.members

RosterMode_NeverNoChange(force_full, delta) == IF force_full THEN "full" ELSE "delta"

RosterMode_IgnoresForce(force_full, delta) ==
    IF Len(delta.added) > 0 \/ Len(delta.updated) > 0 \/ Len(delta.removed) > 0
    THEN "delta"
    ELSE "no_change"

RosterMode(force_full, delta) ==
    IF force_full THEN "full"
    ELSE IF Len(delta.added) > 0 \/ Len(delta.updated) > 0 \/ Len(delta.removed) > 0
    THEN "delta"
    ELSE "no_change"

\* keys of the map the batches are cut from: the roster, or {**added, **updated}
TransferKeys(mode, delta, roster_members) ==
    IF mode = "full" THEN KeysOf(roster_members)
    ELSE delta.added \o delta.updated

\* empty roster: logged, nothing sent
RosterEmpty ==
    /\ pc = "roster"
    /\ DOMAIN RosterOf(processed) = {}
    /\ outcome' = [outcome EXCEPT !.roster = "no_roster"]
    /\ pc' = "cycle_end"
    /\ UNCHANGED << config, lua_data, remote_mode, state, queue, force_full_roster, force_reason, ctx, cycles,
                    processed, web_session_id, fl, st, ro, http, log, accepted_stats, faults,
                    prev_flush >>

\* the locals of the transfer loop as lines 1335-1399 leave them
RosterSetup(r, prev, roster_members, cfg_batch_size) ==
    LET delta == ComputeRosterDelta(prev, roster_members)
        mode == RosterMode(r.force_full, delta)
        all_keys == TransferKeys(mode, delta, roster_members)
        batch_size == ClampBatchSize(cfg_batch_size)
    IN [r EXCEPT !.mode = mode,
                 !.reason = IF mode = "full"
                            THEN (IF r.reason # "" THEN r.reason ELSE "full")
                            ELSE "delta",
                 !.delta = delta,
                 !.transfer = [k \in Range(all_keys) |-> roster_members[k]],
                 !.all_keys = all_keys,
                 !.idx = 0,
                 !.batch_index = 1,
                 !.batch_size = batch_size,
                 !.total_batches = TotalBatches(Len(all_keys), batch_size)]

\* delta or full mode: the transfer loop is set up
RosterBegin ==
    /\ pc = "roster"
    /\ DOMAIN RosterOf(processed) # {}
    /\ RosterMode(ro.force_full,
                  ComputeRosterDelta(state.roster_snapshot, RosterOf(processed))) # "no_change"
    /\ ro' = RosterSetup(ro, state.roster_snapshot, RosterOf(processed), config.batch_size)
    /\ pc' = "roster_loop"
    /\ UNCHANGED << config, lua_data, remote_mode, state, queue, force_full_roster, force_reason, ctx, cycles,
                    processed, web_session_id, fl, st, http, log, accepted_stats, faults,
                    prev_flush, outcome >>

\* no_change: one heartbeat payload is sent instead
HeartbeatSend ==
    /\ pc = "roster"
    /\ DOMAIN RosterOf(processed) # {}
    /\ LET roster_members == RosterOf(processed)
           delta == ComputeRosterDelta(state.roster_snapshot, roster_members)
       IN /\ RosterMode(ro.force_full, delta) = "no_change"
          /\ ro' = [ro EXCEPT !.mode = "no_change", !.reason = "no_change", !.delta = delta]
          /\ http' = Request(SummaryPayload(web_session_id, Cardinality(DOMAIN roster_members)),
                             << "roster no-change heartbeat" >>, TRUE, "heartbeat", 0)
    /\ pc' = "http"
    /\ UNCHANGED << config, lua_data, remote_mode, state, queue, force_full_roster, force_reason, ctx, cycles,
                    processed, web_session_id, fl, st, log, accepted_stats, faults, prev_flush,
                    outcome >>

HeartbeatReturned ==
    /\ pc = "ret"
    /\ http.caller = "heartbeat"
    /\ http.result \in {"success", "queued"}
    /\ state' = [state EXCEPT !.roster_snapshot = BuildRosterSnapshot(RosterOf(processed))]
    /\ outcome' = [outcome EXCEPT !.roster = "heartbeat"]
    /\ http' = http0
    /\ pc' = "cycle_end"
    /\ UNCHANGED << config, lua_data, remote_mode, queue, force_full_roster, force_reason, ctx, cycles, processed,
                    web_session_id, fl, st, ro, log, accepted_stats, faults, prev_flush >>

\* the exception leaves _upload_chunked_to_web; process_file logs it
HeartbeatRaised ==
    /\ pc = "ret"
    /\ http.caller = "heartbeat"
    /\ http.result \in {"too_large", "fatal"}
    /\ outcome' = [outcome EXCEPT !.roster = "error"]
    /\ http' = http0
    /\ pc' = "cycle_end"
    /\ UNCHANGED << config, lua_data, remote_mode, state, queue, force_full_roster, force_reason, ctx, cycles,
                    processed, web_session_id, fl, st, ro, log, accepted_stats, faults,
                    prev_flush >>

BatchKeys(all_keys, idx, batch_size) ==
    SubSeq(all_keys, idx + 1, Min2(idx + batch_size, Len(all_keys)))

RosterSend ==
    /\ pc = "roster_loop"
    /\ ro.idx < Len(ro.all_keys)
    /\ LET batch_keys == BatchKeys(ro.all_keys, ro.idx, ro.batch_size)
           is_final == (ro.idx + ro.batch_size) >= Len(ro.all_keys)
       IN http' = Request(BuildPayload(ro.transfer, ro.delta, ro.mode, ro.reason,
                                       Cardinality(DOMAIN RosterOf(processed)),
                                       web_session_id, batch_keys, ro.batch_index,
                                       ro.total_batches, is_final),
                          << "roster batch", ro.batch_index, ro.total_batches,
                             Len(batch_keys) >>,
                          TRUE, "roster", ro.idx)
    /\ pc' = "http"
    /\ UNCHANGED << config, lua_data, remote_mode, state, queue, force_full_roster, force_reason, ctx, cycles,
                    processed, web_session_id, fl, st, ro, log, accepted_stats, faults,
                    prev_flush, outcome >>

NextIdx_AfterShrink(idx, batch_size, result) ==
    IF result = "too_large" THEN idx + ShrinkBatch(batch_size) ELSE idx + batch_size

\* idx after a batch: advanced when the transport returned, kept on a 413
NextIdx(idx, batch_size, result) ==
    IF result = "too_large" THEN idx ELSE idx + batch_size

RosterBatchReturned ==
    /\ pc = "ret"
    /\ http.caller = "roster"
    /\ http.result \in {"success", "queued"}
    /\ ro' = [ro EXCEPT !.idx = NextIdx(ro.idx, ro.batch_size, http.result),
                        !.batch_index = @ + 1]
    /\ http' = http0
    /\ pc' = "roster_loop"
    /\ UNCHANGED << config, lua_data, remote_mode, state, queue, force_full_roster, force_reason, ctx, cycles,
                    processed, web_session_id, fl, st, log, accepted_stats, faults, prev_flush,
                    outcome >>

\* except _TooLarge413 above the floor: halve and retry
RosterShrink ==
    /\ pc = "ret"
    /\ http.caller = "roster"
    /\ http.result = "too_large"
    /\ ro.batch_size > MinBatchSize
    /\ LET new_batch == ShrinkBatch(ro.batch_size) IN
       ro' = [ro EXCEPT !.idx = NextIdx(ro.idx, ro.batch_size, http.result),
                        !.batch_size = new_batch,
                        !.total_batches = TotalBatches(Len(ro.all_keys), new_batch),
                        !.shrinks = @ + 1]
    /\ http' = http0
    /\ pc' = "roster_loop"
    /\ UNCHANGED << config, lua_data, remote_mode, state, queue, force_full_roster, force_reason, ctx, cycles,
                    processed, web_session_id, fl, st, log, accepted_stats, faults, prev_flush,
                    outcome >>

\* 413 at the floor is re-raised, a RuntimeError is not caught: the transfer
\* ends without a commit
RosterRaised ==
    /\ pc = "ret"
    /\ http.caller = "roster"
    /\ \/ http.result = "fatal"
       \/ http.result = "too_large" /\ ro.batch_size <= MinBatchSize
    /\ outcome' = [outcome EXCEPT !.roster = "error"]
    /\ http' = http0
    /\ pc' = "cycle_end"
    /\ UNCHANGED << config, lua_data, remote_mode, state, queue, force_full_roster, force_reason, ctx, cycles,
                    processed, web_session_id, fl, st, ro, log, accepted_stats, faults,
                    prev_flush >>

\* after the loop: the snapshot is overwritten and saved
RosterCommit ==
    /\ pc = "roster_loop"
    /\ ro.idx >= Len(ro.all_keys)
    /\ state' = [state EXCEPT !.roster_snapshot = BuildRosterSnapshot(RosterOf(processed))]
    /\ outcome' = [outcome EXCEPT !.roster = "committed"]
    /\ pc' = "cycle_end"
    /\ UNCHANGED << config, lua_data, remote_mode, queue, force_full_roster, force_reason, ctx, cycles, processed,
                    web_session_id, fl, st, ro, http, log, accepted_stats, faults, prev_flush >>

\* process_file's finally block: the cycle is over, its locals are gone
EndCycle ==
    /\ pc = "cycle_end"
    /\ processed' = processed0
    /\ fl' = fl0
    /\ st' = st0
    /\ ro' = ro0
    /\ http' = http0
    /\ log' = << >>
    /\ outcome' = outcome0
    /\ pc' = "idle"
    /\ UNCHANGED << config, lua_data, remote_mode, state, queue, force_full_roster, force_reason, ctx, cycles,
                    web_session_id, accepted_stats, faults, prev_flush >>

\* ------------------------------------------------ _post_to_web_with_retry
\* One pass of the `while True` body: attempt += 1, the POST, and what the
\* answer leads to.  `status` is the HTTP status, ConnError a
\* requests.RequestException.  The attempt counter stops counting at
\* AttemptCap.
Attempted(status) ==
    [http EXCEPT !.attempt = Min2(@ + 1, AttemptCap), !.last_status = status]

\* The remote fails at most MaxFaults requests of a run; every attempt of a
\* request it already failed may fail again.
MayFail == remote_mode # "free" \/ http.failed \/ faults < MaxFaults

\* The size-limited remote rejects every batch of 40 or more members as
\* oversize and accepts the others; the free remote answers anything.
Answers(status) ==
    \/ remote_mode = "free"
    \/ /\ remote_mode = "size_limit"
       /\ status = IF Cardinality(DOMAIN http.payload.master_roster) >= 40 THEN 413 ELSE 200

Failed(h) == [h EXCEPT !.failed = TRUE]

FaultsAfter == IF http.failed THEN faults ELSE faults + 1

Finished(h, result) == [h EXCEPT !.result = result]

LogEntry(h, status, result) ==
    [phase |-> h.caller, payload |-> h.payload, accepted |-> (status = 200),
     result |-> result, idx |-> h.tag]

\* 200: return
AttemptAccepted(status) ==
    /\ pc = "http"
    /\ Answers(status)
    /\ Classify(status) = "success"
    /\ http' = Finished(Attempted(status), "success")
    /\ log' = Append(log, LogEntry(http, status, "success"))
    /\ accepted_stats' = accepted_stats \cup {s.ts : s \in Range(http.payload.stats)}
    /\ faults' = faults
    /\ pc' = "ret"
    /\ UNCHANGED << config, lua_data, remote_mode, state, queue, force_full_roster, force_reason, ctx, cycles,
                    processed, web_session_id, fl, st, ro, prev_flush, outcome >>

\* 413: raise _TooLarge413
AttemptTooLarge(status) ==
    /\ pc = "http"
    /\ Answers(status)
    /\ Classify(status) = "too_large"
    /\ MayFail
    /\ faults' = FaultsAfter
    /\ http' = Failed(Finished(Attempted(status), "too_large"))
    /\ log' = Append(log, LogEntry(http, status, "too_large"))
    /\ pc' = "ret"
    /\ UNCHANGED << config, lua_data, remote_mode, state, queue, force_full_roster, force_reason, ctx, cycles,
                    processed, web_session_id, fl, st, ro, accepted_stats, prev_flush,
                    outcome >>

\* 401, 403, 400, 422: raise RuntimeError
AttemptFatal(status) ==
    /\ pc = "http"
    /\ Answers(status)
    /\ Classify(status) = "fatal"
    /\ MayFail
    /\ faults' = FaultsAfter
    /\ http' = Failed(Finished(Attempted(status), "fatal"))
    /\ log' = Append(log, LogEntry(http, status, "fatal"))
    /\ pc' = "ret"
    /\ UNCHANGED << config, lua_data, remote_mode, state, queue, force_full_roster, force_reason, ctx, cycles,
                    processed, web_session_id, fl, st, ro, accepted_stats, prev_flush,
                    outcome >>

\* any other status or a connection error, not yet given up: sleep, continue
AttemptRetry(status) ==
    /\ pc = "http"
    /\ Answers(status)
    /\ Classify(status) = "transient"
    /\ ~GivesUp(http.allow_queue, Attempted(status).attempt)
    /\ MayFail
    /\ faults' = FaultsAfter
    /\ http' = [Failed(Attempted(status)) EXCEPT !.transients = Min2(@ + 1, AttemptCap),
                                                 !.last_status = -1]
    /\ UNCHANGED << config, lua_data, remote_mode, state, queue, force_full_roster, force_reason, pc, ctx, cycles,
                    processed, web_session_id, fl, st, ro, log, accepted_stats,
                    prev_flush, outcome >>

Enqueue_Drops(file, payload, purpose, now) == file

\* LocalUploadQueue.enqueue: one record appended to the file
Enqueue(file, payload, purpose, now) ==
    Append(file, [ts |-> now, purpose |-> purpose, payload |-> payload])

\* any other status or a connection error at the last attempt: enqueue, return
AttemptQueued(status) ==
    /\ pc = "http"
    /\ Answers(status)
    /\ Classify(status) = "transient"
    /\ GivesUp(http.allow_queue, Attempted(status).attempt)
    /\ MayFail
    /\ faults' = FaultsAfter
    /\ queue' = Enqueue(queue, http.payload, http.purpose, cycles)
    /\ http' = [Failed(Finished(Attempted(status), "queued")) EXCEPT
                    !.transients = Min2(@ + 1, AttemptCap)]
    /\ log' = Append(log, LogEntry(http, status, "queued"))
    /\ prev_flush' = [prev_flush EXCEPT !.status = "stale"]
    /\ pc' = "ret"
    /\ UNCHANGED << config, lua_data, remote_mode, state, force_full_roster, force_reason, ctx, cycles, processed,
                    web_session_id, fl, st, ro, accepted_stats, outcome >>

\* ------------------------------------------------------------ specification
Next ==
    \/ RequestFullRoster
    \/ \E roster_members \in RosterInputs, hi \in StatsHis : ProcessFile(roster_members, hi)
    \/ ProcessFileAbort
    \/ WowDetected
    \/ FlushSend
    \/ FlushEntryOk
    \/ FlushEntryFailed
    \/ FlushFinish
    \/ FlushReturnToLoop
    \/ BeginUpload
    \/ StatsNothingNew
    \/ StatsBegin
    \/ StatsSend
    \/ StatsBatchReturned
    \/ StatsBatchRaised
    \/ StatsCommit
    \/ ConsumeTest
    \/ ConsumeClear
    \/ RosterBegin
    \/ HeartbeatSend
    \/ HeartbeatReturned
    \/ HeartbeatRaised
    \/ RosterSend
    \/ RosterBatchReturned
    \/ RosterShrink
    \/ RosterRaised
    \/ RosterCommit
    \/ EndCycle
    \/ \E status \in StatusCodes : AttemptAccepted(status)
    \/ \E status \in StatusCodes : AttemptTooLarge(status)
    \/ \E status \in StatusCodes : AttemptFatal(status)
    \/ \E status \in StatusCodes : AttemptRetry(status)
    \/ \E status \in StatusCodes : AttemptQueued(status)

Spec == Init /\ [][Next]_vars

\* ------------------------------------------- delta as a function of its inputs
\* Every prior snapshot and every non-empty merged roster over DeltaKeys keys.
MemberRec(rank, v, total) ==
    [rank |-> rank, level |-> 80, class |-> "MAGE",
     rankName |-> IF v > 0 THEN "Raider" ELSE "-",
     total |-> total, lastSeenTS |-> 100 * v,
     lastMessage |-> IF v > 0 THEN "hi" ELSE ""]

DeltaMembers == {MemberRec("Member", 0, 0), MemberRec("Member", 1, 1),
                 MemberRec("Member", 1, 7), MemberRec("Officer", 0, 0)}

SnapshotRec(rank, v) ==
    [rank |-> rank, lvl |-> 80, class |-> "MAGE", lastSeenTS |-> 100 * v,
     lastMessage |-> IF v > 0 THEN "hi" ELSE ""]

DeltaProjections == {SnapshotRec("Member", 0), SnapshotRec("Member", 1),
                     SnapshotRec("Officer", 0)}

MapsInto(keys, values) == UNION {[S -> values] : S \in SUBSET keys}

InitDelta ==
    /\ config = [batch_size |-> config_batch_size, stats_batch_size |-> config_stats_batch_size,
                 min_roster_size |-> 1]
    /\ lua_data = NoLua
    /\ remote_mode = "free"
    /\ \E prev \in MapsInto(1..DeltaKeys, DeltaProjections) :
          state = [last_uploaded_stats_ts |-> 0, last_web_session_id |-> 1,
                   roster_snapshot |-> prev]
    /\ \E roster_members \in MapsInto(1..DeltaKeys, DeltaMembers) :
          /\ DOMAIN roster_members # {}
          /\ processed = [roster_members |-> roster_members, members |-> roster_members,
                          stats |-> << >>]
    /\ queue = << >>
    /\ force_full_roster = FALSE
    /\ force_reason = "manual"
    /\ pc = "roster"
    /\ ctx = "cycle"
    /\ cycles = 1
    /\ web_session_id = 1
    /\ fl = fl0
    /\ st = st0
    /\ ro = ro0
    /\ http = http0
    /\ log = << >>
    /\ accepted_stats = {}
    /\ faults = 0
    /\ prev_flush = [status |-> "none", sent |-> 0]
    /\ outcome = outcome0

NextDelta ==
    \/ RosterBegin
    \/ HeartbeatSend

SpecDelta == InitDelta /\ [][NextDelta]_vars

\* --------------------------------- roster transfer against a size-limited remote
\* The transfer loop of one roster phase, set up with the default batch size
\* for a roster of 1..MaxShrinkMembers keys in delta mode (first cycle, every
\* key added) or forced full mode; the remote rejects every batch of 40 or
\* more members.  The pipeline thread runs until the phase ends.
InitOversize ==
    /\ config = [batch_size |-> DEFAULT_BATCH_SIZE, stats_batch_size |-> config_stats_batch_size,
                 min_roster_size |-> 1]
    /\ lua_data = NoLua
    /\ remote_mode = "size_limit"
    /\ state = [last_uploaded_stats_ts |-> 0, last_web_session_id |-> 1,
                roster_snapshot |-> EmptyMap]
    /\ \E n \in 1..MaxShrinkMembers :
          processed = [roster_members |-> Roster(n, 0), members |-> Roster(n, 0),
                       stats |-> << >>]
    /\ queue = << >>
    /\ force_full_roster = FALSE
    /\ force_reason = "manual"
    /\ pc = "roster_loop"
    /\ ctx = "cycle"
    /\ cycles = 1
    /\ web_session_id = 1
    /\ fl = fl0
    /\ st = st0
    /\ \E r \in {ro0, [ro0 EXCEPT !.force_full = TRUE, !.reason = "manual"]} :
          ro = RosterSetup(r, state.roster_snapshot, RosterOf(processed), config.batch_size)
    /\ http = http0
    /\ log = << >>
    /\ accepted_stats = {}
    /\ faults = 0
    /\ prev_flush = [status |-> "none", sent |-> 0]
    /\ outcome = outcome0

NextOversize ==
    \/ RosterSend
    \/ \E status \in StatusCodes : AttemptAccepted(status)
    \/ \E status \in StatusCodes : AttemptTooLarge(status)
    \/ RosterBatchReturned
    \/ RosterShrink
    \/ RosterCommit

SpecOversize == InitOversize /\ [][NextOversize]_vars /\ WF_vars(NextOversize)

\* ------------------------------------------------- flush of a queue file
\* The bridge starts with a queue file of 1..MaxQueued entries left by an
\* earlier run (stats payloads of that run, session id 0) and flushes it from
\* _run_loop whenever WoW is detected.
QueuedEntry(i) ==
    [ts |-> 0, purpose |-> << "stats", i, MaxQueued >>,
     payload |-> StatsPayload(StatsChunk(StatsList(i), 0, MinStatsBatchSize), 0, i, MaxQueued)]

InitFlush ==
    /\ config = [batch_size |-> config_batch_size, stats_batch_size |-> config_stats_batch_size,
                 min_roster_size |-> 1]
    /\ lua_data = NoLua
    /\ remote_mode = "free"
    /\ state = [last_uploaded_stats_ts |-> 0, last_web_session_id |-> 0,
                roster_snapshot |-> EmptyMap]
    /\ \E n \in 1..MaxQueued : queue = [i \in 1..n |-> QueuedEntry(i)]
    /\ force_full_roster = FALSE
    /\ force_reason = "manual"
    /\ pc = "idle"
    /\ ctx = "loop"
    /\ cycles = 0
    /\ processed = processed0
    /\ web_session_id = 0
    /\ fl = fl0
    /\ st = st0
    /\ ro = ro0
    /\ http = http0
    /\ log = << >>
    /\ accepted_stats = {}
    /\ faults = 0
    /\ prev_flush = [status |-> "none", sent |-> 0]
    /\ outcome = outcome0

NextFlush ==
    \/ WowDetected
    \/ FlushSend
    \/ FlushEntryOk
    \/ FlushEntryFailed
    \/ FlushFinish
    \/ FlushReturnToLoop
    \/ \E status \in StatusCodes : AttemptAccepted(status)
    \/ \E status \in StatusCodes : AttemptTooLarge(status)
    \/ \E status \in StatusCodes : AttemptFatal(status)
    \/ \E status \in StatusCodes : AttemptRetry(status)

SpecFlush == InitFlush /\ [][NextFlush]_vars

\* ------------------------------------------------ the roster phase alone
\* One roster phase for a roster of n members against a persisted snapshot
\* that is empty (first cycle), equal to the roster's projection (no change),
\* made of two members that have left the guild (every member added, two
\* removed) or equal to the projection plus two members that have left
\* (two removed, none added or updated), with or without a consumed force-full request, and a configured
\* batch size below the floor, just above it, or above the roster size.
TransferSizes == {2, MaxMembers, MaxMembers + 4}

TransferBatchSizes == {5, 12, 25}

PrevKinds == {"first", "same", "others", "left"}

PrevSnapshot(kind, n) ==
    IF kind = "first" THEN EmptyMap
    ELSE IF kind = "same" THEN BuildRosterSnapshot(Roster(n, 0))
    ELSE IF kind = "left" THEN BuildRosterSnapshot(Roster(n + 2, 0))
    ELSE BuildRosterSnapshot([k \in {n + 1, n + 2} |-> Member(k, 0)])

InitTransfer ==
    /\ \E b \in TransferBatchSizes :
          config = [batch_size |-> b, stats_batch_size |-> config_stats_batch_size,
                 min_roster_size |-> 1]
    /\ lua_data = NoLua
    /\ remote_mode = "free"
    /\ \E n \in TransferSizes, kind \in PrevKinds :
          /\ state = [last_uploaded_stats_ts |-> 0, last_web_session_id |-> 1,
                      roster_snapshot |-> PrevSnapshot(kind, n)]
          /\ processed = [roster_members |-> Roster(n, 0), members |-> Roster(n, 0),
                          stats |-> << >>]
    /\ queue = << >>
    /\ force_full_roster = FALSE
    /\ force_reason = "manual"
    /\ pc = "roster"
    /\ ctx = "cycle"
    /\ cycles = 1
    /\ web_session_id = 1
    /\ fl = fl0
    /\ st = st0
    /\ \E f \in BOOLEAN :
          ro = [ro0 EXCEPT !.force_full = f, !.reason = IF f THEN force_reason ELSE ""]
    /\ http = http0
    /\ log = << >>
    /\ accepted_stats = {}
    /\ faults = 0
    /\ prev_flush = [status |-> "none", sent |-> 0]
    /\ outcome = outcome0

NextTransfer ==
    \/ RosterBegin
    \/ HeartbeatSend
    \/ HeartbeatReturned
    \/ HeartbeatRaised
    \/ RosterSend
    \/ RosterBatchReturned
    \/ RosterShrink
    \/ RosterRaised
    \/ RosterCommit
    \/ \E status \in StatusCodes : AttemptAccepted(status)
    \/ \E status \in StatusCodes : AttemptTooLarge(status)
    \/ \E status \in StatusCodes : AttemptFatal(status)
    \/ \E status \in StatusCodes : AttemptRetry(status)
    \/ \E status \in StatusCodes : AttemptQueued(status)

SpecTransfer == InitTransfer /\ [][NextTransfer]_vars

\* ------------------------------------------------- the stats phase alone
\* Output of _normalize_stats for a stats list of hi + dup snapshots of which
\* the last 1 + dup share the newest timestamp hi: every snapshot with the
\* newest timestamp carries its online map.
StatsWithDups(hi, dup) ==
    [i \in 1..(hi + dup) |->
        [iso |-> IsoOf(i), ts |-> Min2(i, hi), onlineCount |-> 1 + (i % 2),
         online |-> IF i >= hi THEN {1} ELSE {}]]

StatsDups == {0, 2}

StatsWatermarks == {0, 1, 2, MaxStats}

\* process_file has parsed the file and made the session id; the stats phase
\* is about to run on processed.stats with the persisted watermark.
InitStats ==
    /\ config = [batch_size |-> config_batch_size, stats_batch_size |-> config_stats_batch_size,
                 min_roster_size |-> 1]
    /\ lua_data = NoLua
    /\ remote_mode = "free"
    /\ \E wm \in StatsWatermarks :
          state = [last_uploaded_stats_ts |-> wm, last_web_session_id |-> 1,
                   roster_snapshot |-> EmptyMap]
    /\ queue = << >>
    /\ force_full_roster = FALSE
    /\ force_reason = "manual"
    /\ pc = "stats"
    /\ ctx = "cycle"
    /\ cycles = 1
    /\ \E hi \in StatsHis, dup \in StatsDups :
          processed = [processed0 EXCEPT !.stats = StatsWithDups(hi, dup)]
    /\ web_session_id = 1
    /\ fl = fl0
    /\ st = st0
    /\ ro = ro0
    /\ http = http0
    /\ log = << >>
    /\ accepted_stats = {}
    /\ faults = 0
    /\ prev_flush = [status |-> "none", sent |-> 0]
    /\ outcome = outcome0

NextStats ==
    \/ StatsNothingNew
    \/ StatsBegin
    \/ StatsSend
    \/ StatsBatchReturned
    \/ StatsBatchRaised
    \/ StatsCommit
    \/ \E status \in StatusCodes : AttemptAccepted(status)
    \/ \E status \in StatusCodes : AttemptTooLarge(status)
    \/ \E status \in StatusCodes : AttemptFatal(status)
    \/ \E status \in StatusCodes : AttemptRetry(status)
    \/ \E status \in StatusCodes : AttemptQueued(status)

SpecStats == InitStats /\ [][NextStats]_vars

\* ------------------------------------------------ merge of roster and chat
\* One roster member "Bob" (canonical key Bob-Realm1) and every chat map over
\* the keys Bob, Bob-Realm1, Bob-RealmA, Bob-RealmB, Bob-Unknown, in this file
\* order, with lastSeenTS drawn from MergeTs; the chat totals differ per key.
MergeTs == {0, 40, 100, 140, 200}

Absent == -1

BobKey == ChatKey("Bob", "Realm1")

ChatItem(i, ts) ==
    [key |-> ChatKey("Bob", MergeRealms[i]),
     entry |-> [total |-> 4 + i, lastSeenTS |-> ts, lastMessage |-> "hi", rankName |-> "Raider"]]

\* the chat map with the keys i for which f[i] is a timestamp
ChatMap(f) ==
    LET items == [i \in 1..Len(MergeRealms) |-> [item |-> ChatItem(i, f[i]), ts |-> f[i]]]
        kept == SelectSeq(items, LAMBDA x : x.ts # Absent)
    IN [i \in 1..Len(kept) |-> kept[i].item]

InitMerge ==
    /\ config = [batch_size |-> config_batch_size, stats_batch_size |-> config_stats_batch_size,
                 min_roster_size |-> 1]
    /\ \E f \in [1..Len(MergeRealms) -> MergeTs \cup {Absent}] :
          lua_data = [roster |-> << [key |-> BobKey,
                                     info |-> [rank |-> "Officer", level |-> 80, class |-> "MAGE"]] >>,
                      data |-> ChatMap(f)]
    /\ remote_mode = "free"
    /\ state = [last_uploaded_stats_ts |-> 0, last_web_session_id |-> 0,
                roster_snapshot |-> EmptyMap]
    /\ queue = << >>
    /\ force_full_roster = FALSE
    /\ force_reason = "manual"
    /\ pc = "merge"
    /\ ctx = "cycle"
    /\ cycles = 1
    /\ processed = processed0
    /\ web_session_id = 0
    /\ fl = fl0
    /\ st = st0
    /\ ro = ro0
    /\ http = http0
    /\ log = << >>
    /\ accepted_stats = {}
    /\ faults = 0
    /\ prev_flush = [status |-> "none", sent |-> 0]
    /\ outcome = outcome0

\* processed_data, _active_count = self._process_and_merge_data(data)
MergeData ==
    /\ pc = "merge"
    /\ processed' = IF MergeReturnsNone(lua_data, config.min_roster_size) THEN processed0
                     ELSE ProcessAndMergeData(lua_data)
    /\ pc' = "merged"
    /\ UNCHANGED << config, lua_data, remote_mode, state, queue, force_full_roster, force_reason,
                    ctx, cycles, web_session_id, fl, st, ro, http, log, accepted_stats, faults,
                    prev_flush, outcome >>

NextMerge == MergeData

SpecMerge == InitMerge /\ [][NextMerge]_vars

\* ------------------------------------------- merge and upload of one cycle
\* `if not processed_data: return`, otherwise the upload stage starts with
\* the queue flush
MergedContinue ==
    /\ pc = "merged"
    /\ pc' = AfterParse(~MergeReturnsNone(lua_data, config.min_roster_size))
    /\ fl' = [fl0 EXCEPT !.entries = queue]
    /\ UNCHANGED << config, lua_data, remote_mode, state, queue, force_full_roster, force_reason,
                    ctx, cycles, processed, web_session_id, st, ro, http, log, accepted_stats,
                    faults, prev_flush, outcome >>

\* One cycle from the decoded table on, for a roster that is empty or holds
\* Bob-Realm1, every chat map over the keys Bob, Bob-Realm1, Bob-RealmA,
\* Bob-RealmB, Bob-Unknown, and MIN_ROSTER_SIZE 0 or 1 (the default).  The
\* queue is empty, the table has no stats and the remote accepts every batch.
OrphanRosters ==
    {<< >>, << [key |-> BobKey, info |-> [rank |-> "Officer", level |-> 80, class |-> "MAGE"]] >>}

InitOrphan ==
    /\ \E m \in {0, 1} :
          config = [batch_size |-> config_batch_size,
                    stats_batch_size |-> config_stats_batch_size,
                    min_roster_size |-> m]
    /\ \E roster \in OrphanRosters, f \in [1..Len(MergeRealms) -> {100, Absent}] :
          lua_data = [roster |-> roster, data |-> ChatMap(f)]
    /\ remote_mode = "free"
    /\ state = [last_uploaded_stats_ts |-> 0, last_web_session_id |-> 0,
                roster_snapshot |-> EmptyMap]
    /\ queue = << >>
    /\ force_full_roster = FALSE
    /\ force_reason = "manual"
    /\ pc = "merge"
    /\ ctx = "cycle"
    /\ cycles = 1
    /\ processed = processed0
    /\ web_session_id = 0
    /\ fl = fl0
    /\ st = st0
    /\ ro = ro0
    /\ http = http0
    /\ log = << >>
    /\ accepted_stats = {}
    /\ faults = 0
    /\ prev_flush = [status |-> "none", sent |-> 0]
    /\ outcome = outcome0

NextOrphan ==
    \/ MergeData
    \/ MergedContinue
    \/ FlushFinish
    \/ BeginUpload
    \/ StatsNothingNew
    \/ ConsumeTest
    \/ RosterEmpty
    \/ RosterBegin
    \/ RosterSend
    \/ RosterBatchReturned
    \/ RosterCommit
    \/ AttemptAccepted(200)

SpecOrphan == InitOrphan /\ [][NextOrphan]_vars

\* ------------------------------------------------------------------ claims
\* The projection a snapshot keeps of a merged roster entry.
Projection(info) ==
    [rank |-> info.rank, lvl |-> info.level, class |-> info.class,
     lastSeenTS |-> info.lastSeenTS, lastMessage |-> info.lastMessage]

RosterLog == SelectSeq(log, LAMBDA e : e.phase = "roster")

\* roster batches the transport returned from without error, in sending order
ReturnedBatches == SelectSeq(RosterLog, LAMBDA e : e.result \in {"success", "queued"})

BatchSize(e) == Cardinality(DOMAIN e.payload.master_roster)

RECURSIVE KeysBefore(_, _)
KeysBefore(batches, j) ==
    IF j <= 1 THEN 0 ELSE KeysBefore(batches, j - 1) + BatchSize(batches[j - 1])

\* batch j holds exactly the keys of the slice that follows the batches before it
CoversSlices(batches, all_keys) ==
    \A j \in 1..Len(batches) :
        /\ batches[j].idx = KeysBefore(batches, j)
        /\ batches[j].idx + BatchSize(batches[j]) <= Len(all_keys)
        /\ DOMAIN batches[j].payload.master_roster =
              {all_keys[i] : i \in (batches[j].idx + 1)..(batches[j].idx + BatchSize(batches[j]))}

TransferCompleted == pc = "cycle_end" /\ outcome.roster = "committed"

\* C1: after a cycle whose forced full-mode roster upload completed with every
\* batch accepted, the snapshot has exactly the keys of the merged roster and
\* maps each key to the projection {rank, level, class, lastSeenTS,
\* lastMessage} of that member.
C1_FullUploadSnapshot ==
    (/\ TransferCompleted
     /\ ro.mode = "full"
     /\ \A i \in 1..Len(ReturnedBatches) : ReturnedBatches[i].accepted)
    => /\ DOMAIN state.roster_snapshot = DOMAIN processed.roster_members
       /\ \A name \in DOMAIN processed.roster_members :
             state.roster_snapshot[name] = Projection(processed.roster_members[name])

C1_Witness ==
    /\ TransferCompleted
    /\ ro.mode = "full"
    /\ ro.force_full
    /\ Len(ReturnedBatches) >= 2
    /\ \A i \in 1..Len(ReturnedBatches) : ReturnedBatches[i].accepted
    /\ \E name \in DOMAIN processed.roster_members :
          processed.roster_members[name].lastSeenTS > 0

\* C2: _compute_roster_delta partitions the current keys into added (absent
\* from the prior snapshot), updated (present, projection differs) and
\* unchanged (present, projection identical), each key in exactly one class,
\* and removed is exactly the set of prior keys absent from the roster.
C2_DeltaPartition ==
    pc # "roster" =>
        LET prev == state.roster_snapshot
            cur == processed.roster_members
            A == Range(ro.delta.added)
            U == Range(ro.delta.updated)
            R == Range(ro.delta.removed)
        IN /\ A \cup U \subseteq DOMAIN cur
           /\ A \cap U = {}
           /\ \A name \in DOMAIN cur :
                 /\ name \in A <=> name \notin DOMAIN prev
                 /\ name \in U <=> (name \in DOMAIN prev /\ Projection(cur[name]) # prev[name])
                 /\ name \notin A \cup U <=>
                       (name \in DOMAIN prev /\ Projection(cur[name]) = prev[name])
           /\ R = DOMAIN prev \ DOMAIN cur
           /\ Len(ro.delta.added) = Cardinality(A)
           /\ Len(ro.delta.updated) = Cardinality(U)
           /\ Len(ro.delta.removed) = Cardinality(R)

C2_Witness ==
    /\ pc = "roster_loop"
    /\ Len(ro.delta.added) = 1
    /\ Len(ro.delta.updated) = 1
    /\ Len(ro.delta.removed) = 1
    /\ \E name \in DOMAIN processed.roster_members :
          /\ name \in DOMAIN state.roster_snapshot
          /\ name \notin Range(ro.delta.updated)

\* C3: the stats watermark never decreases, whatever the remote answers and
\* whatever stats lists the cycles supply.
C3_WatermarkMonotonic ==
    [][state'.last_uploaded_stats_ts >= state.last_uploaded_stats_ts]_vars

C3_Witness ==
    /\ cycles = 2
    /\ outcome.stats = "committed"
    /\ state.last_uploaded_stats_ts = MaxStats
    /\ Len(st.new_snaps) < MaxStats

\* C4: after any sequence of cycles the stats watermark equals the maximum
\* timestamp among the snapshots of the stats batches the remote accepted
\* (its initial value if none was accepted); it never passes a snapshot whose
\* batch was only placed in the local queue.
C4_WatermarkIsMaxAccepted ==
    pc \in {"idle", "cycle_end"} =>
        state.last_uploaded_stats_ts = SetMax(accepted_stats \cup {0})

\* C5: in a roster transfer the retry after an oversize rejection starts at
\* the key index of the rejected batch, the batches the transport returned
\* from without error are consecutive non-overlapping slices of the key
\* list, and when the transfer completes they cover it: every key was in
\* exactly one such batch.
C5_ShrinkKeepsWindow ==
    /\ \A i \in 1..(Len(RosterLog) - 1) :
          RosterLog[i].result = "too_large" => RosterLog[i + 1].idx = RosterLog[i].idx
    /\ (pc \in {"http", "ret"} /\ http.caller = "roster" /\ Len(RosterLog) > 0
        /\ http.result = "" /\ RosterLog[Len(RosterLog)].result = "too_large")
       => http.tag = RosterLog[Len(RosterLog)].idx
    /\ CoversSlices(ReturnedBatches, ro.all_keys)
    /\ TransferCompleted =>
          KeysBefore(ReturnedBatches, Len(ReturnedBatches) + 1) = Len(ro.all_keys)

C5_Witness ==
    /\ TransferCompleted
    /\ ro.shrinks >= 1
    /\ Len(ReturnedBatches) >= 2
    /\ \E i \in 2..Len(RosterLog) : RosterLog[i].result = "too_large"

\* C6: from the default batch size 80, against a remote that rejects every
\* batch of 40 or more members and accepts smaller ones, the roster transfer
\* terminates after at most two shrink steps; once a batch was rejected (the
\* transfer set has 40 or more keys) the batch size ends <= 20, and every key
\* of the transfer set was delivered in exactly one accepted batch.
C6_ConvergesAndDelivers ==
    <>(/\ TransferCompleted
       /\ ro.shrinks <= 2
       /\ (Len(ro.all_keys) >= 40 => ro.batch_size <= 20)
       /\ \A i \in 1..Len(ReturnedBatches) : ReturnedBatches[i].accepted
       /\ CoversSlices(ReturnedBatches, ro.all_keys)
       /\ KeysBefore(ReturnedBatches, Len(ReturnedBatches) + 1) = Len(ro.all_keys)
       /\ Len(ro.all_keys) = Cardinality(DOMAIN processed.roster_members))

C6_Witness ==
    /\ TransferCompleted
    /\ ro.shrinks = 2
    /\ ro.batch_size = 20
    /\ Len(ReturnedBatches) >= 4

InFlush ==
    \/ pc \in {"flush", "flushed"}
    \/ pc \in {"http", "ret"} /\ http.caller = "flush"

\* C7: flushing the queue twice in a row while the remote accepts every
\* replay empties the queue in the first pass; the second pass sends no
\* request and leaves the queue empty.
C7_FlushTwice ==
    /\ (pc = "flushed" /\ FlushAccepted = 1..Len(fl.entries)) => queue = << >>
    /\ (InFlush /\ prev_flush.status = "all_accepted")
       => (fl.entries = << >> /\ fl.sent = 0 /\ queue = << >> /\ pc \notin {"http", "ret"})

C7_Witness ==
    /\ pc = "flushed"
    /\ prev_flush.status = "all_accepted"
    /\ prev_flush.sent >= 1

Occurrences(seq, e) == Cardinality({i \in 1..Len(seq) : seq[i] = e})

\* C8: a queue entry leaves the queue only after the remote accepted its
\* payload: after a flush pass every entry that was present before it is
\* still present or its replay was answered with acceptance.
C8_RemovedOnlyIfAccepted ==
    pc = "flushed" =>
        \A i \in 1..Len(fl.entries) :
            \/ i \in FlushAccepted
            \/ Occurrences(queue, fl.entries[i]) >=
                  Cardinality({j \in 1..Len(fl.entries) :
                                  j \notin FlushAccepted /\ fl.entries[j] = fl.entries[i]})

\* an entry kept by a pass whose replay failed leaves in the next pass, accepted
C8_Witness ==
    /\ pc = "flushed"
    /\ prev_flush.status = "some_failed"
    /\ prev_flush.sent = 1
    /\ Len(fl.entries) = 1
    /\ FlushAccepted = {1}
    /\ queue = << >>

\* C9: with queuing enabled a request whose every attempt fails transiently
\* makes exactly 5 attempts, then appends its payload to the queue exactly
\* once and returns; there is no sixth attempt and no second append.
C9_FiveAttemptsThenQueue ==
    /\ (http.caller # "" /\ http.allow_queue) =>
          /\ http.attempt <= 5
          /\ Len(queue) - http.qlen0 \in {0, 1}
          /\ (http.transients = 5 /\ http.attempt = 5) =>
                (pc = "ret" /\ http.result = "queued")
          /\ pc = "http" => Len(queue) = http.qlen0
    /\ http.result = "queued" =>
          /\ http.allow_queue
          /\ http.attempt = 5
          /\ http.transients = 5
          /\ Len(queue) = http.qlen0 + 1
          /\ queue[Len(queue)].payload = http.payload

C9_Witness ==
    /\ pc = "ret"
    /\ http.result = "queued"
    /\ http.transients = 5
    /\ http.qlen0 = 1

\* C10: an authorization failure (401/403) or a validation failure (400/422)
\* ends the request as fatal: no further attempt, nothing appended to the
\* queue, the error raised to the caller, also after transient failures of
\* earlier attempts.
C10_FatalEndsRequest ==
    http.last_status \in {401, 403, 400, 422} =>
        /\ pc = "ret"
        /\ http.result = "fatal"
        /\ Len(queue) = http.qlen0

C10_Witness ==
    /\ http.last_status = 422
    /\ http.transients >= 2
    /\ http.allow_queue

\* C11: an attempt answered with 413 ends the request: no further attempt with
\* that payload, nothing appended to the queue, and the caller gets a result
\* that is neither success nor fatal nor queued, also after transient
\* failures of earlier attempts and whether queuing is allowed or not.
C11_OversizeEndsRequest ==
    /\ http.last_status = 413 =>
          /\ pc = "ret"
          /\ http.result = "too_large"
          /\ http.result \notin {"success", "fatal", "queued"}
          /\ Len(queue) = http.qlen0
    /\ \A i \in 1..Len(log) : log[i].result = "too_large" => ~log[i].accepted

C11_Witness ==
    /\ http.last_status = 413
    /\ http.transients >= 2
    /\ http.allow_queue
    /\ http.caller = "roster"

\* C12: with an empty persisted snapshot and a non-empty roster the cycle is
\* classified full, added is the whole roster key set and removed is empty,
\* also when no force-full request is pending.
C12_FirstCycleIsFull ==
    (state.roster_snapshot = EmptyMap /\ pc = "roster_loop") =>
        /\ ro.mode = "full"
        /\ Range(ro.delta.added) = DOMAIN RosterOf(processed)
        /\ ro.delta.removed = << >>

\* the last request of the roster phase (roster batch or heartbeat) of the cycle
RosterPhaseLog == SelectSeq(log, LAMBDA e : e.phase \in {"roster", "heartbeat"})

\* C13: the snapshot is overwritten only in a cycle whose final roster batch
\* (or no-change heartbeat) was accepted by the remote; a cycle whose final
\* batch was queued, fatal or oversize at the floor leaves it unchanged.
C13_CommitOnlyIfFinalAccepted ==
    (pc = "cycle_end" /\ outcome.roster \in {"committed", "heartbeat"}) =>
        /\ Len(RosterPhaseLog) > 0
        /\ RosterPhaseLog[Len(RosterPhaseLog)].accepted
        /\ RosterPhaseLog[Len(RosterPhaseLog)].payload.is_final_batch

\* requests the cycle built itself (not the replays of the queue flush)
OwnLog == SelectSeq(log, LAMBDA e : e.phase \in {"stats", "roster", "heartbeat"})

StatsLog == SelectSeq(log, LAMBDA e : e.phase = "stats")

OwnRequestInFlight ==
    pc \in {"http", "ret"} /\ http.caller \in {"stats", "roster", "heartbeat"}

\* C14: within one cycle every newly built batch (stats batch, roster batch,
\* no-change heartbeat) carries the upload_session_id generated once for that
\* cycle, the one saved as last_web_session_id; a shrink of the roster batch
\* size does not change it.
C14_OneSessionPerCycle ==
    /\ \A i \in 1..Len(OwnLog) : OwnLog[i].payload.upload_session_id = web_session_id
    /\ OwnRequestInFlight =>
          /\ http.payload.upload_session_id = web_session_id
          /\ web_session_id = state.last_web_session_id
          /\ web_session_id = cycles

C14_Witness ==
    /\ pc = "ret"
    /\ http.caller = "roster"
    /\ ro.shrinks >= 1
    /\ cycles = 2
    /\ Len(StatsLog) >= 2
    /\ Len(RosterLog) >= 2

\* C15: within the stats phase and within the roster phase batch N+1 is sent
\* only after batch N was accepted or was shrunk and retried; a batch that
\* was not accepted is never followed by the next batch of the phase.
C15_NextOnlyAfterAccepted ==
    /\ \A i \in 1..(Len(StatsLog) - 1) : StatsLog[i].accepted
    /\ (OwnRequestInFlight /\ http.caller = "stats" /\ http.result = "") =>
          \A i \in 1..Len(StatsLog) : StatsLog[i].accepted
    /\ \A i \in 1..(Len(RosterLog) - 1) :
          RosterLog[i].accepted \/ RosterLog[i].result = "too_large"
    /\ (OwnRequestInFlight /\ http.caller = "roster" /\ http.result = "") =>
          \A i \in 1..Len(RosterLog) :
              RosterLog[i].accepted \/ RosterLog[i].result = "too_large"

MaxTs(chunk) == SetMax({chunk[i].ts : i \in 1..Len(chunk)})

\* C16: in a stats phase with several batches each accepted batch advances
\* the watermark to its maximum timestamp: when batches 1..k were accepted
\* and batch k+1 failed, the watermark is the maximum timestamp of batch k.
C16_WatermarkPerBatch ==
    (/\ outcome.stats = "error"
     /\ Len(StatsLog) >= 2
     /\ \A i \in 1..(Len(StatsLog) - 1) : StatsLog[i].accepted)
    => state.last_uploaded_stats_ts = MaxTs(StatsLog[Len(StatsLog) - 1].payload.stats)

\* C17: in every cycle that reaches the upload stage the roster phase runs
\* whatever the stats phase did (accepted, fatal, oversize, queued): the
\* cycle never ends with the roster phase not run, and a failed stats phase
\* is followed by the flag consumption and the roster phase.
C17_StatsNeverBlocksRoster ==
    /\ pc = "cycle_end" => outcome.roster # "not_run"
    /\ outcome.stats # "not_run" =>
          \/ pc \in {"consume", "consume_clear", "roster", "roster_loop", "cycle_end"}
          \/ pc \in {"http", "ret"} /\ http.caller \in {"roster", "heartbeat"}

C17_Witness ==
    /\ pc = "cycle_end"
    /\ outcome.stats = "error"
    /\ outcome.roster = "committed"
    /\ Len(RosterLog) >= 1
    /\ RosterLog[Len(RosterLog)].accepted

InRosterTransfer ==
    \/ pc = "roster_loop"
    \/ pc \in {"http", "ret"} /\ http.caller \in {"roster", "heartbeat"}
    \/ pc = "cycle_end" /\ outcome.roster # "not_run"

ForceFlagStep ==
    /\ (force_full_roster /\ ~force_full_roster') =>
          (ro'.force_full /\ ~ro.force_full /\ pc' = "roster")
    /\ (ro'.force_full /\ ~ro.force_full) =>
          (force_full_roster /\ ~force_full_roster')
    /\ (~force_full_roster /\ pc = "consume") => ~ro'.force_full
    /\ (force_full_roster /\ pc \in {"consume", "consume_clear"}) =>
          (force_full_roster' \/ ro'.force_full)

\* C18: a force-full request is consumed exactly once.  The flag is raised
\* only by request_full_roster; it is lowered only by the step that makes
\* the current cycle forced, before its roster phase starts, so a request
\* is never dropped; a cycle is forced only by lowering the flag, so one
\* request never forces two cycles; a forced cycle is full-mode and an
\* unforced cycle is not.
C18_ForceFullOnce ==
    /\ [](InRosterTransfer => (ro.force_full <=> ro.mode = "full"))
    /\ [][ForceFlagStep]_vars

C18_Witness ==
    /\ cycles = 2
    /\ pc = "roster_loop"
    /\ ~ro.force_full
    /\ ro.mode = "delta"
    /\ force_full_roster
    /\ state.roster_snapshot # EmptyMap

\* C19: a cycle whose source cannot be decoded sends no request and leaves the
\* watermark, the last session id, the snapshot, the queue and the pending
\* force-full flag unchanged.
C19_DecodeFailureChangesNothing ==
    [][(pc = "idle" /\ cycles' = cycles + 1 /\ processed' = processed0) =>
          /\ pc' = "idle"
          /\ UNCHANGED << state, queue, force_full_roster, force_reason, http, log,
                          accepted_stats, web_session_id >>]_vars

C19_Witness ==
    /\ pc = "idle"
    /\ cycles = 2
    /\ state.last_web_session_id = 1
    /\ state.roster_snapshot # EmptyMap
    /\ queue # << >>
    /\ force_full_roster

\* C20: in every cycle that uploads, the flush pass has finished (every queued
\* entry loaded at its start was replayed) before a new stats or roster batch
\* of the cycle is sent: in the order of the requests every replay precedes
\* every new batch.
C20_FlushBeforeNewBatches ==
    /\ OwnRequestInFlight =>
          /\ fl.fi = Len(fl.entries)
          /\ Cardinality({i \in 1..Len(log) : log[i].phase = "flush"}) = Len(fl.entries)
    /\ \A i, j \in 1..Len(log) :
          (i < j /\ log[j].phase = "flush") => log[i].phase = "flush"

C20_Witness ==
    /\ pc = "http"
    /\ http.caller = "stats"
    /\ Len(fl.entries) >= 1
    /\ fl.fi = Len(fl.entries)
    /\ Len(queue) >= 1

\* the short-* chat candidates of Bob in the chat map handed to the merge
BobCandidates ==
    ShortCandidates(lua_data.data, "Bob")

\* the two newest candidates differ by less than the window
TwoNewestWithin(candidates, window) ==
    \E i, j \in 1..Len(candidates) :
        /\ i # j
        /\ \A k \in 1..Len(candidates) :
              candidates[k].entry.lastSeenTS <= candidates[i].entry.lastSeenTS
        /\ \A k \in 1..Len(candidates) :
              k # i => candidates[k].entry.lastSeenTS <= candidates[j].entry.lastSeenTS
        /\ candidates[i].entry.lastSeenTS - candidates[j].entry.lastSeenTS < window

\* C23: a roster member without exact chat match and with several short-*
\* candidates whose two newest lastSeenTS differ by less than 60 seconds, for
\* all timestamp values, is not enriched: the merged entry keeps total 0,
\* lastSeenTS 0 and an empty lastMessage.
C23_AmbiguousSkipsEnrichment ==
    (/\ pc = "merged"
     /\ BobKey \notin ActivityKeys(lua_data.data)
     /\ ShortName(BobKey) \notin ActivityKeys(lua_data.data)
     /\ Len(BobCandidates) >= 2
     /\ TwoNewestWithin(BobCandidates, 60))
    => /\ processed.roster_members[BobKey].total = 0
       /\ processed.roster_members[BobKey].lastSeenTS = 0
       /\ processed.roster_members[BobKey].lastMessage = ""

\* the entries of the pass whose replay was not accepted, in their order
NotAccepted ==
    LET failed == SortedSeq({i \in 1..Len(fl.entries) : i \notin FlushAccepted})
    IN [k \in 1..Len(failed) |-> fl.entries[failed[k]]]

\* C21: a flush pass never grows the queue: during the pass nothing is
\* appended to it, and after the pass its content is exactly the entries
\* whose replay failed, in their original order, none duplicated.
C21_FlushNeverGrows ==
    /\ (InFlush /\ pc # "flushed") => queue = fl.entries
    /\ pc = "flushed" =>
          /\ queue = NotAccepted
          /\ Len(queue) <= Len(fl.entries)
    /\ (pc \in {"http", "ret"} /\ http.caller = "flush") => ~http.allow_queue

C21_Witness ==
    /\ pc = "flushed"
    /\ Len(fl.entries) = 3
    /\ FlushAccepted = {2}
    /\ queue = << fl.entries[1], fl.entries[3] >>

\* C22: a replayed entry (queuing disabled) whose attempts keep failing
\* transiently is given up after the bounded attempt count 5, so the flush
\* pass terminates whatever the remote does.
C22_FlushReplayBounded ==
    http.caller = "flush" => http.attempt <= max_attempts_before_queue

\* the stats payloads handed to the transport so far in this phase
StatsRequests ==
    [i \in 1..Len(StatsLog) |-> StatsLog[i].payload]
        \o (IF pc = "http" /\ http.caller = "stats" THEN << http.payload >> ELSE << >>)

RECURSIVE Flatten(_)
Flatten(seqs) == IF seqs = << >> THEN << >> ELSE Head(seqs) \o Flatten(Tail(seqs))

SentSnaps == Flatten([i \in 1..Len(StatsRequests) |-> StatsRequests[i].stats])

InStatsPhase == pc = "stats_loop" \/ (pc \in {"http", "ret"} /\ http.caller = "stats")

IsPrefix(a, b) == Len(a) <= Len(b) /\ a = SubSeq(b, 1, Len(a))

Isos(snaps) == [i \in 1..Len(snaps) |-> snaps[i].iso]

SourceOf(s) == CHOOSE x \in Range(processed.stats) : x.iso = s.iso

\* C25: in every stats batch sent every snapshot but the last carries an
\* empty online map, and every snapshot keeps the timestamp and onlineCount
\* it has in the stats list.
C25_OnlineOnlyOnLast ==
    \A r \in 1..Len(StatsRequests) :
        LET chunk == StatsRequests[r].stats IN
        /\ \A j \in 1..(Len(chunk) - 1) : chunk[j].online = {}
        /\ \A j \in 1..Len(chunk) :
              /\ \E x \in Range(processed.stats) : x.iso = chunk[j].iso
              /\ chunk[j].onlineCount = SourceOf(chunk[j]).onlineCount
              /\ chunk[j].ts = SourceOf(chunk[j]).ts

C25_Witness ==
    /\ Len(StatsLog) = 2
    /\ LET chunk == StatsLog[2].payload.stats IN
       /\ StatsLog[2].accepted
       /\ Len(chunk) >= 2
       /\ SourceOf(chunk[Len(chunk) - 1]).online # {}
       /\ chunk[Len(chunk) - 1].online = {}
       /\ chunk[Len(chunk)].online # {}

\* C26: an oversize rejection of a stats batch never ends the stats phase
\* with the window unsent (the batch is shrunk and resubmitted instead).
C26_StatsOversizeResubmitted ==
    ~(/\ outcome.stats = "error"
      /\ StatsLog # << >>
      /\ StatsLog[Len(StatsLog)].result = "too_large"
      /\ st.i < Len(st.new_snaps)
      /\ pc = AfterStats("too_large"))

\* the roster batches handed to the transport so far in this phase, each
\* with its starting index
RosterRequests ==
    [i \in 1..Len(RosterLog) |-> [payload |-> RosterLog[i].payload, idx |-> RosterLog[i].idx]]
        \o (IF pc = "http" /\ http.caller = "roster"
            THEN << [payload |-> http.payload, idx |-> http.tag] >> ELSE << >>)

\* the batch reaches the end of the key list
ReachesEnd(r) == r.idx + Cardinality(DOMAIN r.payload.master_roster) = Len(ro.all_keys)

\* C27: in every roster batch sent, removed_members is non-empty only if
\* is_final_batch is true, and is_final_batch is true only for a batch that
\* reaches the end of the key list, also for a window rebuilt after a shrink.
C27_RemovedOnlyOnFinal ==
    \A i \in 1..Len(RosterRequests) :
        LET r == RosterRequests[i] IN
        /\ r.payload.removed_members # << >> => r.payload.is_final_batch
        /\ r.payload.is_final_batch <=> ReachesEnd(r)
        /\ ~ReachesEnd(r) => r.payload.removed_members = << >>

C27_Witness ==
    /\ Len(RosterLog) >= 3
    /\ RosterLog[1].result = "too_large"
    /\ RosterLog[1].payload.is_final_batch
    /\ RosterLog[1].payload.removed_members # << >>
    /\ RosterLog[2].idx = RosterLog[1].idx
    /\ RosterLog[2].accepted
    /\ ~RosterLog[2].payload.is_final_batch
    /\ RosterLog[2].payload.removed_members = << >>
    /\ RosterLog[Len(RosterLog)].accepted
    /\ RosterLog[Len(RosterLog)].payload.removed_members # << >>

\* the tag the position of a batch asks for
PositionPhase(r) ==
    IF ReachesEnd(r) THEN "final"
    ELSE IF r.idx = 0 THEN "start"
    ELSE "chunk"

AcceptedFinals ==
    {i \in 1..Len(RosterLog) : RosterLog[i].accepted
                                /\ RosterLog[i].payload.session_phase = "final"}

NoChangeCase ==
    /\ state.roster_snapshot = [k \in DOMAIN RosterOf(processed) |->
                                   Projection(RosterOf(processed)[k])]
    /\ ~ro.force_full

IsHeartbeat(payload) ==
    /\ payload.kind = "heartbeat"
    /\ payload.roster_mode = "no_change"
    /\ payload.is_final_batch
    /\ payload.batch_index = 1
    /\ payload.total_batches = 1
    /\ payload.master_roster = EmptyMap
    /\ payload.data = EmptyMap
    /\ payload.removed_members = << >>

\* C29: when the persisted snapshot equals the projection of the current
\* roster and no force-full request was consumed, the roster phase sets up no
\* chunked transfer and sends exactly one batch, the no_change heartbeat
\* (is_final_batch, batch_index = total_batches = 1, empty master_roster,
\* data and removed_members).
C29_NoChangeHeartbeat ==
    /\ (NoChangeCase /\ pc \in {"roster_loop", "http", "ret"}) =>
          /\ pc # "roster_loop"
          /\ http.caller = "heartbeat"
          /\ IsHeartbeat(http.payload)
          /\ pc = "http" => RosterPhaseLog = << >>
          /\ pc = "ret" => Len(RosterPhaseLog) = 1
    /\ (pc = "cycle_end" /\ outcome.roster = "heartbeat") =>
          /\ Len(RosterPhaseLog) = 1
          /\ IsHeartbeat(RosterPhaseLog[1].payload)

C29_Witness ==
    /\ pc = "cycle_end"
    /\ outcome.roster = "heartbeat"
    /\ ro.mode = "no_change"
    /\ ~ro.force_full
    /\ Len(RosterPhaseLog) = 1
    /\ RosterPhaseLog[1].accepted
    /\ Cardinality(DOMAIN state.roster_snapshot) = MaxMembers

\* one step of a roster transfer, as far as the batch size goes
BatchSizeStep ==
    /\ (ro.batch_size > 0 /\ ro'.batch_size # ro.batch_size) =>
          /\ pc = "ret"
          /\ http.result = "too_large"
          /\ ro'.batch_size < ro.batch_size
          /\ ro'.batch_size = Max2(MinBatchSize, ro.batch_size \div 2)
          /\ ro'.idx = ro.idx
    /\ (/\ pc = "ret"
        /\ http.caller = "roster"
        /\ http.result = "too_large"
        /\ ro.batch_size = MinBatchSize) =>
          /\ pc' = "cycle_end"
          /\ outcome'.roster = "error"
          /\ state'.roster_snapshot = state.roster_snapshot

\* C30: within one roster transfer the batch size changes only by halving
\* after an oversize rejection and never falls below the floor 10; an
\* oversize rejection at batch size 10 aborts the transfer and leaves
\* rosterSnapshot unchanged.
C30_BatchSizeHalvesToFloor ==
    /\ [](ro.batch_size > 0 => ro.batch_size >= MinBatchSize)
    /\ [][BatchSizeStep]_vars

C30_Witness ==
    /\ pc = "cycle_end"
    /\ outcome.roster = "error"
    /\ ro.shrinks = 1
    /\ ro.batch_size = MinBatchSize
    /\ RosterLog[Len(RosterLog)].result = "too_large"
    /\ state.roster_snapshot = PrevSnapshot("others", MaxMembers)

\* C31: no field of the persisted state (watermark, last session id,
\* roster snapshot) is written in a cycle before a batch of that cycle was
\* acknowledged by the remote: in the first cycle, as long as no batch of
\* the cycle was accepted, the state is the one the bridge started with.
C31_StateWrittenAfterAck ==
    (/\ cycles = 1
     /\ ctx = "cycle"
     /\ pc # "idle"
     /\ \A i \in 1..Len(OwnLog) : ~OwnLog[i].accepted)
    => state = [last_uploaded_stats_ts |-> 0, last_web_session_id |-> 0,
                roster_snapshot |-> EmptyMap]

\* the keys of union_members that are no roster member: the ActivityOrphans
OrphanKeys == DOMAIN processed.members \ DOMAIN processed.roster_members

\* the chat item i is the one whose data was attached to Bob (the chat totals
\* differ per key and are never 0)
AttachedToBob(i) == processed.roster_members[BobKey].total = lua_data.data[i].entry.total

\* C33: a chat entry whose data was attached to a roster member by any
\* resolution step is not also an entry of its own in union_members.
C33_AbsorbedNotOrphan ==
    pc = "merged" =>
        \A i \in 1..Len(lua_data.data) :
            AttachedToBob(i) =>
                CanonicalizePlayerKey(lua_data.data[i].key,
                                      InferDefaultRealm(lua_data.roster, lua_data.data))
                    \notin OrphanKeys

\* C34: a roster member without exact canonical match for whose short name
\* both a bare chat entry and short-* chat candidates exist is not enriched
\* from the bare entry: it keeps total 0, lastSeenTS 0, empty lastMessage.
C34_BareShortOnlyIfUnique ==
    (/\ pc = "merged"
     /\ BobKey \notin ActivityKeys(lua_data.data)
     /\ ShortName(BobKey) \in ActivityKeys(lua_data.data)
     /\ Len(BobCandidates) >= 1)
    => /\ processed.roster_members[BobKey].total = 0
       /\ processed.roster_members[BobKey].lastSeenTS = 0
       /\ processed.roster_members[BobKey].lastMessage = ""

\* the canonical keys of the guild roster in the decoded table
RosterKeysOfTable ==
    {CanonicalizePlayerKey(lua_data.roster[i].key,
                           InferDefaultRealm(lua_data.roster, lua_data.data)) :
        i \in 1..Len(lua_data.roster)}

\* C32: no chat-only key appears in master_roster or data of a roster batch
\* sent, nor in the committed roster snapshot, whatever the input and the
\* configured minimum roster size.
C32_NoOrphanUploaded ==
    /\ \A i \in 1..Len(RosterLog) :
          /\ DOMAIN RosterLog[i].payload.master_roster \subseteq RosterKeysOfTable
          /\ DOMAIN RosterLog[i].payload.data \subseteq RosterKeysOfTable
    /\ (pc = "cycle_end" /\ outcome.roster = "committed") =>
          DOMAIN state.roster_snapshot \subseteq RosterKeysOfTable

\* C35: every roster batch sent has 1 <= batch_index <= total_batches and is
\* final exactly when batch_index = total_batches, also after a shrink.
C35_BatchIndexConsistent ==
    \A i \in 1..Len(RosterRequests) :
        LET p == RosterRequests[i].payload IN
        /\ 1 <= p.batch_index
        /\ p.batch_index <= p.total_batches
        /\ p.is_final_batch <=> (p.batch_index = p.total_batches)

\* C36: when a cycle commits a snapshot that no longer contains a key of the
\* previous snapshot (a key of the computed removed list), a final roster
\* batch whose removed_members lists that key was handed to the transport
\* (accepted or enqueued) in that cycle, also for a delta of removals only.
C36_RemovalsAnnounced ==
    TransferCompleted =>
        \A k \in Range(ro.delta.removed) :
            k \notin DOMAIN state.roster_snapshot =>
                \E i \in 1..Len(ReturnedBatches) :
                    /\ ReturnedBatches[i].payload.is_final_batch
                    /\ k \in Range(ReturnedBatches[i].payload.removed_members)

\* timestamps of the snapshots inside the payloads held in the local queue
QueuedStats ==
    UNION {{s.ts : s \in Range(queue[i].payload.stats)} : i \in 1..Len(queue)}

\* C37: no stats snapshot is lost: every snapshot timestamp of the stats
\* lists (1..MaxStats) either was in a batch the remote accepted, is inside a
\* payload held in the local queue, or is still greater than the watermark
\* (a timestamp no cycle has seen yet is greater than the watermark).
C37_NoSnapshotLost ==
    \A ts \in 1..MaxStats :
        \/ ts \in accepted_stats
        \/ ts \in QueuedStats
        \/ ts > state.last_uploaded_stats_ts

C37_Witness ==
    /\ state.last_uploaded_stats_ts = MaxStats
    /\ accepted_stats = {}
    /\ QueuedStats = 1..MaxStats
    /\ Len(queue) = 2

\* C40: a forced (full-mode) transfer that aborts with an error does not drop
\* the pending full resync: when the roster phase of a cycle that consumed a
\* force-full request ends in an error, the request is still pending.
C40_AbortKeepsFullRequest ==
    (/\ pc = "cycle_end"
     /\ ro.force_full
     /\ ro.mode = "full"
     /\ outcome.roster = "error")
    => force_full_roster

\* the roster phase ended with a fatal answer to a roster batch or heartbeat
FatalEnd ==
    /\ pc = "cycle_end"
    /\ outcome.roster = "error"
    /\ RosterPhaseLog # << >>
    /\ RosterPhaseLog[Len(RosterPhaseLog)].result = "fatal"

\* the rosters the next cycle may read: the same one, or one with new chat
\* activity of its first two members
NextRosters == {Roster(Cardinality(DOMAIN RosterOf(processed)), v) : v \in {0, 1}}

\* key k of roster r differs from what the snapshot holds for it
Differs(k, snapshot, r) == k \notin DOMAIN snapshot \/ snapshot[k] # Projection(r[k])

\* keys of the transfer an unforced cycle on roster r cuts its batches from
NextTransferKeys(r) ==
    LET delta == ComputeRosterDelta(state.roster_snapshot, r)
    IN Range(TransferKeys(RosterMode(FALSE, delta), delta, r))

\* the snapshot is written only by a step that ends the roster phase as
\* committed or heartbeat, never by the step that handles a fatal answer
SnapshotStep ==
    state'.roster_snapshot # state.roster_snapshot =>
        /\ pc' = "cycle_end"
        /\ outcome'.roster \in {"committed", "heartbeat"}
        /\ ~(pc = "ret" /\ http.result = "fatal")

\* C38: when a roster batch or the heartbeat ends with a fatal error the
\* snapshot is not written in that cycle, and the transfer set an unforced
\* next cycle computes against it contains every key of the failed transfer
\* that still differs from the snapshot.
C38_FatalKeepsSnapshot ==
    /\ [](FatalEnd =>
            \A r \in NextRosters :
                \A k \in Range(ro.all_keys) :
                    Differs(k, state.roster_snapshot, r) => k \in NextTransferKeys(r))
    /\ [][SnapshotStep]_vars

C38_Witness ==
    /\ FatalEnd
    /\ ro.mode = "full"
    /\ Len(RosterLog) = 2
    /\ RosterLog[1].accepted
    /\ state.roster_snapshot = PrevSnapshot("same", MaxMembers)
    /\ Len(ro.all_keys) = MaxMembers

\* C39: when a delta or full transfer has completed, the committed snapshot
\* classifies the same input as no_change; a cycle that finds the snapshot a
\* committed cycle left for the same roster, with no force-full request,
\* sends one heartbeat and no roster batch.
C39_ResyncIdempotent ==
    /\ (TransferCompleted /\ ro.mode \in {"delta", "full"}) =>
          RosterMode(FALSE, ComputeRosterDelta(state.roster_snapshot, RosterOf(processed)))
              = "no_change"
    /\ (/\ cycles = 2
        /\ pc \in {"roster_loop", "http", "ret", "cycle_end"}
        /\ ~(pc \in {"http", "ret"} /\ http.caller \in {"flush", "stats"})
        /\ ~ro.force_full
        /\ ro.mode # ""
        /\ ro.delta = NoDelta) =>
          /\ ro.mode = "no_change"
          /\ RosterLog = << >>
          /\ pc # "roster_loop"
          /\ pc \in {"http", "ret"} => IsHeartbeat(http.payload)
          /\ Len(RosterPhaseLog) <= 1

C39_Witness ==
    /\ cycles = 2
    /\ pc = "cycle_end"
    /\ outcome.roster = "heartbeat"
    /\ ~ro.force_full
    /\ Len(RosterPhaseLog) = 1
    /\ RosterPhaseLog[1].accepted
    /\ IsHeartbeat(RosterPhaseLog[1].payload)
    /\ Cardinality(DOMAIN state.roster_snapshot) = MaxMembers

====
